---- MODULE Spec2Model ----
(***************************************************************************)
(* A model of the haku virtual machine (crates/haku/src/vm.rs), of the     *)
(* bytecode readers it is driven by (crates/haku/src/bytecode.rs), and of  *)
(* the host facade and render thread that own one VM per session           *)
(* (crates/rkgk/src/haku.rs, crates/rkgk/src/api/wall.rs).                 *)
(*                                                                         *)
(* Ids (RefId, ChunkId, DefId), stack indices and bytecode offsets are     *)
(* 0-based as in the source; TLA+ sequences are 1-based, so element i of   *)
(* a vector v is v[i + 1].                                                 *)
(***************************************************************************)
EXTENDS Integers, Sequences, FiniteSets, TLC

(***************************************************************************)
(* Limits.  VmLimits / Limits are supplied by the host at construction;    *)
(* the model fixes small ones.                                             *)
(***************************************************************************)
stack_capacity == 6

call_stack_capacity == 3

ref_capacity == 3

fuel_limit == 24

memory_limit == 50

max_defs == 2

max_chunks == 1

\* size_of::<Value>(): a 4-byte tag and the largest payload, four f32 (Vec4, Rgba).
SizeOfValue == 20

(***************************************************************************)
(* Values (value.rs).  A Value is a tag and a payload: the f32 bit pattern *)
(* of a Number, the id of a Ref, the f32 bit patterns of the four channels *)
(* of an Rgba.                                                             *)
(***************************************************************************)
Nil == [t |-> "Nil", n |-> 0]

False == [t |-> "False", n |-> 0]

True == [t |-> "True", n |-> 0]

Number(bits) == [t |-> "Number", n |-> bits]

RefValue(id) == [t |-> "Ref", n |-> id]

RgbaValue(r, g, b, a) == [t |-> "Rgba", n |-> 0, r |-> r, g |-> g, b |-> b, a |-> a]

is_falsy(v) == v.t \in {"Nil", "False"}

is_truthy(v) == ~is_falsy(v)

(***************************************************************************)
(* f32.  A Number is carried as its IEEE-754 bit pattern, which is what    *)
(* f32::from_le_bytes yields.  Arithmetic is exact on the non-negative     *)
(* integers below 2^24, the only numbers the programs of this model        *)
(* compute with; UnmodelledF32 marks a result outside that range.          *)
(***************************************************************************)
RECURSIVE Pow2(_)
Pow2(k) == IF k = 0 THEN 1 ELSE 2 * Pow2(k - 1)

RECURSIVE Log2Floor(_)
Log2Floor(x) == IF x < 2 THEN 0 ELSE 1 + Log2Floor(x \div 2)

UnmodelledF32 == 0 - 1

IntToF32(x) ==
    IF x = 0 THEN 0
    ELSE LET e == Log2Floor(x)
         IN  (e + 127) * Pow2(23) + (x - Pow2(e)) * Pow2(23 - e)

F32IsSmallInt(bits) ==
    \/ bits = 0
    \/ /\ bits > 0
       /\ LET e == bits \div Pow2(23)
              m == bits % Pow2(23)
          IN  /\ e >= 127
              /\ e <= 150
              /\ m % Pow2(150 - e) = 0

F32ToInt(bits) ==
    IF bits = 0 THEN 0
    ELSE LET e == bits \div Pow2(23)
             m == bits % Pow2(23)
         IN  (Pow2(23) + m) \div Pow2(150 - e)

F32Add(a, b) ==
    IF F32IsSmallInt(a) /\ F32IsSmallInt(b) /\ F32ToInt(a) + F32ToInt(b) < Pow2(24)
    THEN IntToF32(F32ToInt(a) + F32ToInt(b))
    ELSE UnmodelledF32

F32Sub(a, b) ==
    IF F32IsSmallInt(a) /\ F32IsSmallInt(b) /\ F32ToInt(a) >= F32ToInt(b)
    THEN IntToF32(F32ToInt(a) - F32ToInt(b))
    ELSE UnmodelledF32

(***************************************************************************)
(* Little-endian encodings used by Chunk::emit_u16 / emit_f32.             *)
(***************************************************************************)
U16Bytes(x) == <<x % 256, x \div 256>>

U32Bytes(x) == <<x % 256, (x \div 256) % 256, (x \div 65536) % 256, x \div 16777216>>

F32Bytes(x) == U32Bytes(IntToF32(x))

(***************************************************************************)
(* Opcodes (bytecode.rs, enum Opcode, #[repr(u8)]): the byte of an opcode  *)
(* is its position in the enum.  Rgba and List are the two opcodes vm.rs   *)
(* matches on in addition to the ones the enum in bytecode.rs lists.       *)
(***************************************************************************)
Opcode ==
    << "Nil", "False", "True", "Number", "Rgba",
       "Local", "SetLocal", "Capture", "Def", "SetDef",
       "List", "Function", "Jump", "JumpIfNot", "Call", "System", "Return" >>

Op(name) == (CHOOSE i \in 1..Len(Opcode) : Opcode[i] = name) - 1

CAPTURE_LOCAL == 0

CAPTURE_CAPTURE == 1

(***************************************************************************)
(* Brushes.  The chunks the compiler emits for the sources below, written  *)
(* with its emission rules: arguments, then the callee, then `Call argc`;  *)
(* a def is its expression followed by `SetDef id`; a `let` is its         *)
(* expression followed by `SetLocal slot`; a lambda is                     *)
(* `Function param_count then`, its body, `Return` and, at `then`,         *)
(* local_count, capture_count and the captures.  The DefIds are the ones   *)
(* the compiler finds in the Defs table, so each chunk is an operator of   *)
(* them.                                                                   *)
(***************************************************************************)
RECURSIVE Flatten(_)
Flatten(ss) == IF ss = <<>> THEN <<>> ELSE Head(ss) \o Flatten(Tail(ss))

\* compile_fn: a Function emitted at offset `at`, `then` patched to point past Return.
FunctionCode(at, param_count, body, local_count, captures) ==
    <<Op("Function"), param_count>> \o U16Bytes(at + 4 + Len(body) + 1)
        \o body \o <<Op("Return")>>
        \o <<local_count, Len(captures)>> \o Flatten(captures)

NumberCode(x) == <<Op("Number")>> \o F32Bytes(x)

DefCode(id) == <<Op("Def")>> \o U16Bytes(id)

SetDefCode(id) == <<Op("SetDef")>> \o U16Bytes(id)

SystemAdd == 0

SystemSub == 1

SystemFloor == 16

SystemRgba == 133

SystemRgbaR == 134

SystemRgbaG == 135

SystemRgbaB == 136

SystemRgbaA == 137

\* f = \_ -> (let x = 1
\*            x + x)
\* [f (), f ()]
Issue78Code(f) ==
    FunctionCode(0, 1,
        NumberCode(1) \o <<Op("SetLocal"), 1, Op("Local"), 1, Op("Local"), 1,
                           Op("System"), SystemAdd, 2>>,
        1, <<>>)
    \o SetDefCode(f)
    \o <<Op("Nil")>> \o DefCode(f) \o <<Op("Call"), 1>>
    \o <<Op("Nil")>> \o DefCode(f) \o <<Op("Call"), 1>>
    \o <<Op("List")>> \o U16Bytes(2)
    \o <<Op("Return")>>

\* botsbuildbots = \_ -> botsbuildbots ()
\* botsbuildbots ()
BotsbuildbotsCode(botsbuildbots) ==
    FunctionCode(0, 1, <<Op("Nil")>> \o DefCode(botsbuildbots) \o <<Op("Call"), 1>>, 0, <<>>)
    \o SetDefCode(botsbuildbots)
    \o <<Op("Nil")>> \o DefCode(botsbuildbots) \o <<Op("Call"), 1>>
    \o <<Op("Return")>>

\* l = [(), ()]
\* l + 1
ListErrorCode(l) ==
    <<Op("Nil"), Op("Nil"), Op("List")>> \o U16Bytes(2) \o SetDefCode(l)
    \o DefCode(l) \o NumberCode(1) \o <<Op("System"), SystemAdd, 2, Op("Return")>>

\* let x = 1
\* x + 1
LetCode ==
    NumberCode(1) \o <<Op("SetLocal"), 0, Op("Local"), 0>> \o NumberCode(1)
        \o <<Op("System"), SystemAdd, 2, Op("Return")>>

\* x = y
\* y = 1
\* x + 1
ForwardDefCode(x, y) ==
    DefCode(y) \o SetDefCode(x) \o NumberCode(1) \o SetDefCode(y)
    \o DefCode(x) \o NumberCode(1) \o <<Op("System"), SystemAdd, 2, Op("Return")>>

\* f ()
CallFCode(f) == <<Op("Nil")>> \o DefCode(f) \o <<Op("Call"), 1, Op("Return")>>

\* compile_if: the condition, `JumpIfNot false`, the true branch, `Jump end`,
\* and at `false` the false branch, emitted at offset `at`
IfCode(at, condition, if_true, if_false) ==
    condition
    \o <<Op("JumpIfNot")>> \o U16Bytes(at + Len(condition) + 3 + Len(if_true) + 3)
    \o if_true
    \o <<Op("Jump")>>
    \o U16Bytes(at + Len(condition) + 3 + Len(if_true) + 3 + Len(if_false))
    \o if_false

\* ((\x -> \y -> x + y) 2) 2
FunctionClosureCode ==
    NumberCode(2) \o NumberCode(2)
    \o FunctionCode(10, 1,
          FunctionCode(14, 1,
              <<Op("Capture"), 0, Op("Local"), 0, Op("System"), SystemAdd, 2>>,
              0, << <<CAPTURE_LOCAL, 0>> >>),
          0, <<>>)
    \o <<Op("Call"), 1, Op("Call"), 1, Op("Return")>>

\* f = \_ -> (let x = 7
\*            5)
\* [1, 2, f ()]
CallLetCode(f) ==
    FunctionCode(0, 1,
        NumberCode(7) \o <<Op("SetLocal"), 1>> \o NumberCode(5),
        1, <<>>)
    \o SetDefCode(f)
    \o NumberCode(1) \o NumberCode(2)
    \o <<Op("Nil")>> \o DefCode(f) \o <<Op("Call"), 1>>
    \o <<Op("List")>> \o U16Bytes(3)
    \o <<Op("Return")>>

\* [[()]]
NestedListCode ==
    <<Op("Nil"), Op("List")>> \o U16Bytes(1) \o <<Op("List")>> \o U16Bytes(1)
        \o <<Op("Return")>>

\* 10 - 3
SubCode == NumberCode(10) \o NumberCode(3) \o <<Op("System"), SystemSub, 2, Op("Return")>>

\* [(), ()]
ListCode == <<Op("Nil"), Op("Nil"), Op("List")>> \o U16Bytes(2) \o <<Op("Return")>>

\* (\x, y -> x) 1
ParamCountCode ==
    NumberCode(1) \o FunctionCode(5, 2, <<Op("Local"), 0>>, 0, <<>>)
    \o <<Op("Call"), 1, Op("Return")>>

\* x = 1
\* y = 2
\* x + y
DefSimpleCode(x, y) ==
    NumberCode(1) \o SetDefCode(x) \o NumberCode(2) \o SetDefCode(y)
    \o DefCode(x) \o DefCode(y) \o <<Op("System"), SystemAdd, 2, Op("Return")>>

\* f = \x -> if (x) g () else 1
\* g = \x -> if (x) f x else 2
\* f 1
DefMutuallyRecursiveCode(f, g) ==
    FunctionCode(0, 1,
        IfCode(4, <<Op("Local"), 0>>,
               <<Op("Nil")>> \o DefCode(g) \o <<Op("Call"), 1>>,
               NumberCode(1)),
        0, <<>>)
    \o SetDefCode(f)
    \o FunctionCode(29, 1,
        IfCode(33, <<Op("Local"), 0>>,
               <<Op("Local"), 0>> \o DefCode(f) \o <<Op("Call"), 1>>,
               NumberCode(2)),
        0, <<>>)
    \o SetDefCode(g)
    \o NumberCode(1) \o DefCode(f) \o <<Op("Call"), 1, Op("Return")>>

\* getter (rgba 1 2 3 4), for the getter of index `getter`
RgbaGetterCode(getter) ==
    NumberCode(1) \o NumberCode(2) \o NumberCode(3) \o NumberCode(4)
    \o <<Op("System"), SystemRgba, 4, Op("System"), getter, 1, Op("Return")>>

\* A brush's source as the compiler sees it: the names its toplevel defines, in
\* order, the names it refers to that are no locals, and the local_count of the
\* ClosureSpec of its toplevel.
Sources ==
    << [name |-> "issue_78", def_names |-> <<"f">>, idents |-> {"f"}, local_count |-> 0],
       [name |-> "botsbuildbots", def_names |-> <<"botsbuildbots">>,
        idents |-> {"botsbuildbots"}, local_count |-> 0],
       [name |-> "list_error", def_names |-> <<"l">>, idents |-> {"l"}, local_count |-> 0],
       [name |-> "let", def_names |-> <<>>, idents |-> {}, local_count |-> 1],
       [name |-> "forward_def", def_names |-> <<"x", "y">>, idents |-> {"x", "y"},
        local_count |-> 0],
       [name |-> "call_f", def_names |-> <<>>, idents |-> {"f"}, local_count |-> 0],
       [name |-> "nested_list", def_names |-> <<>>, idents |-> {}, local_count |-> 0] >>

\* The sources of the evaluations below: some of Sources, and those of the
\* codes FunctionClosureCode to DefMutuallyRecursiveCode.
Programs ==
    << Sources[4], Sources[5], Sources[6],
       [name |-> "function_closure", def_names |-> <<>>, idents |-> {}, local_count |-> 0],
       [name |-> "list", def_names |-> <<>>, idents |-> {}, local_count |-> 0],
       [name |-> "param_count", def_names |-> <<>>, idents |-> {}, local_count |-> 0],
       [name |-> "def_simple", def_names |-> <<"x", "y">>, idents |-> {"x", "y"},
        local_count |-> 0],
       [name |-> "def_mutually_recursive", def_names |-> <<"f", "g">>,
        idents |-> {"f", "g"}, local_count |-> 0],
       [name |-> "rgbaR", def_names |-> <<>>, idents |-> {}, local_count |-> 0],
       [name |-> "rgbaG", def_names |-> <<>>, idents |-> {}, local_count |-> 0],
       [name |-> "rgbaB", def_names |-> <<>>, idents |-> {}, local_count |-> 0],
       [name |-> "rgbaA", def_names |-> <<>>, idents |-> {}, local_count |-> 0],
       [name |-> "call_let", def_names |-> <<"f">>, idents |-> {"f"}, local_count |-> 0],
       [name |-> "sub", def_names |-> <<>>, idents |-> {}, local_count |-> 0] >>

(***************************************************************************)
(* State.                                                                  *)
(***************************************************************************)
VARIABLES
    chunks,     \* System::chunks: the registered chunks, by ChunkId
    vm,         \* Vm: stack, call_stack, refs, defs, fuel, memory
    cur,        \* the locals of Vm::run while it executes: closure_id, chunk_id,
                \* pc, bottom, fuel, init_bottom; running is TRUE inside run
    result,     \* what the last call returned: Ok(value), Err(..) or a panic
    image,      \* the VmImage the host holds (Haku::vm_image)
    brush,      \* Haku::brush: the (ChunkId, ClosureSpec) of the compiled brush
    brush_ok,   \* the render thread's brush_ok
    defs,       \* Defs::defs: the names of the def table, by DefId
    hist,       \* history of the last call: what it was and what it started from
    front       \* the front end at work on a source: Lexer, Parser or Compiler

vars == <<chunks, vm, cur, result, image, brush, brush_ok, defs, hist, front>>

\* No source is being compiled.
NoFront == [stage |-> "none"]

(***************************************************************************)
(* Refs (value.rs).                                                        *)
(***************************************************************************)
ClosureRef(chunk_id, offset, param_count, local_count, captures) ==
    [k |-> "Closure", chunk_id |-> chunk_id, offset |-> offset,
     param_count |-> param_count, local_count |-> local_count, elems |-> captures]

ListRef(elements) ==
    [k |-> "List", chunk_id |-> 0, offset |-> 0,
     param_count |-> 0, local_count |-> 0, elems |-> elements]

\* Closure::chunk
ClosureChunk(chunk_id, local_count) == ClosureRef(chunk_id, 0, 0, local_count, <<>>)

(***************************************************************************)
(* The machine: Vm's fields and run's locals in one record, with err the   *)
(* Exception or panic that ended the call, val the value last read and     *)
(* opnd the operand last read.  Every operation is the identity once err   *)
(* is set, which is the `?` of the source.                                 *)
(***************************************************************************)
NoErr == [kind |-> "none", message |-> ""]

Failed(m) == m.err.kind # "none"

create_exception(m, message) == [m EXCEPT !.err = [kind |-> "exception", message |-> message]]

Panic(m, message) == [m EXCEPT !.err = [kind |-> "panic", message |-> message]]

Machine(v, c) ==
    [stack |-> v.stack, call_stack |-> v.call_stack, refs |-> v.refs, defs |-> v.defs,
     vmfuel |-> v.fuel, memory |-> v.memory,
     closure_id |-> c.closure_id, chunk_id |-> c.chunk_id, pc |-> c.pc,
     bottom |-> c.bottom, fuel |-> c.fuel, init_bottom |-> c.init_bottom,
     err |-> NoErr, val |-> Nil, opnd |-> 0, frame |-> <<>>, caps |-> <<>>,
     halted |-> FALSE]

VmOf(m) ==
    [stack |-> m.stack, call_stack |-> m.call_stack, refs |-> m.refs, defs |-> m.defs,
     fuel |-> m.vmfuel, memory |-> m.memory]

CurOf(m, running) ==
    [running |-> running, closure_id |-> m.closure_id, chunk_id |-> m.chunk_id,
     pc |-> m.pc, bottom |-> m.bottom, fuel |-> m.fuel, init_bottom |-> m.init_bottom]

Idle == [running |-> FALSE, closure_id |-> 0, chunk_id |-> 0, pc |-> 0, bottom |-> 0,
         fuel |-> 0, init_bottom |-> 0]

Take(s, k) == SubSeq(s, 1, k)

\* Vec::resize_with(len, || panic!(..)): truncation; growing runs the closure.
resize_with(s, len) == Take(s, len)

(***************************************************************************)
(* Chunk readers (bytecode.rs).                                            *)
(***************************************************************************)
\* System::chunk: &self.chunks[id]
ChunkOf(m) == chunks[m.chunk_id + 1]

system_chunk(m, chunk_id) ==
    IF Failed(m) THEN m
    ELSE IF chunk_id < Len(chunks) THEN [m EXCEPT !.chunk_id = chunk_id]
    ELSE Panic(m, "index out of bounds")

read_u8(m) ==
    IF Failed(m) THEN m
    ELSE IF m.pc < Len(ChunkOf(m))
         THEN [m EXCEPT !.opnd = ChunkOf(m)[m.pc + 1], !.pc = @ + 1]
         ELSE create_exception([m EXCEPT !.pc = @ + 1], "corrupted bytecode")

\* &self.bytecode[*pc..*pc + 2]: slicing past the end panics.
read_u16(m) ==
    IF Failed(m) THEN m
    ELSE IF m.pc + 2 <= Len(ChunkOf(m))
         THEN [m EXCEPT !.opnd = ChunkOf(m)[m.pc + 1] + 256 * ChunkOf(m)[m.pc + 2],
                        !.pc = @ + 2]
         ELSE Panic(m, "range end index out of range for slice")

read_f32(m) ==
    IF Failed(m) THEN m
    ELSE IF m.pc + 4 <= Len(ChunkOf(m))
         THEN [m EXCEPT !.opnd = ChunkOf(m)[m.pc + 1] + 256 * ChunkOf(m)[m.pc + 2]
                                 + 65536 * ChunkOf(m)[m.pc + 3]
                                 + 16777216 * ChunkOf(m)[m.pc + 4],
                        !.pc = @ + 4]
         ELSE Panic(m, "range end index out of range for slice")

read_opcode(m) ==
    LET m1 == read_u8(m)
    IN  IF Failed(m1) THEN m1
        ELSE IF m1.opnd <= Op("Return") THEN m1
        ELSE create_exception(m1, "corrupted bytecode")

(***************************************************************************)
(* Vm's stack, call stack and ref arena (vm.rs).  Vec::capacity() of a     *)
(* vector made by Vec::with_capacity(n) and never grown is n.              *)
(***************************************************************************)
\* Fault: push without the capacity check.
push_unchecked(m, value) ==
    IF Failed(m) THEN m ELSE [m EXCEPT !.stack = Append(@, value)]

push(m, value) ==
    IF Failed(m) THEN m
    ELSE IF Len(m.stack) >= stack_capacity
         THEN create_exception(m,
                "too many temporary values (local variables and expression operands)")
         ELSE [m EXCEPT !.stack = Append(@, value)]

RECURSIVE push_nils(_, _)
push_nils(m, count) == IF count = 0 THEN m ELSE push_nils(push(m, Nil), count - 1)

get(m, index) ==
    IF Failed(m) THEN m
    ELSE IF index < Len(m.stack) THEN [m EXCEPT !.val = m.stack[index + 1]]
    ELSE create_exception(m, "corrupted bytecode (local variable out of bounds)")

\* *self.get_mut(index)? = value
get_mut(m, index, value) ==
    IF Failed(m) THEN m
    ELSE IF index < Len(m.stack) THEN [m EXCEPT !.stack[index + 1] = value]
    ELSE create_exception(m, "corrupted bytecode (set local variable out of bounds)")

pop(m) ==
    IF Failed(m) THEN m
    ELSE IF Len(m.stack) > 0
         THEN [m EXCEPT !.val = m.stack[Len(m.stack)],
                        !.stack = Take(@, Len(@) - 1)]
         ELSE create_exception(m, "corrupted bytecode (value stack underflow)")

CallFrame(m) ==
    [closure_id |-> m.closure_id, chunk_id |-> m.chunk_id, pc |-> m.pc, bottom |-> m.bottom]

\* Fault: a push_call that lets one frame too many in.
push_call_late(m, frame) ==
    IF Failed(m) THEN m
    ELSE IF Len(m.call_stack) > call_stack_capacity
         THEN create_exception(m, "too much recursion")
         ELSE [m EXCEPT !.call_stack = Append(@, frame)]

push_call(m, frame) ==
    IF Failed(m) THEN m
    ELSE IF Len(m.call_stack) >= call_stack_capacity
         THEN create_exception(m, "too much recursion")
         ELSE [m EXCEPT !.call_stack = Append(@, frame)]

pop_call(m) ==
    IF Failed(m) THEN m
    ELSE IF Len(m.call_stack) > 0
         THEN [m EXCEPT !.frame = m.call_stack[Len(m.call_stack)],
                        !.call_stack = Take(@, Len(@) - 1)]
         ELSE create_exception(m, "corrupted bytecode (call stack underflow)")

\* self.stack.resize_with(len, || unreachable!())
truncate_stack(m, len) ==
    IF Failed(m) THEN m
    ELSE IF len <= Len(m.stack) THEN [m EXCEPT !.stack = resize_with(@, len)]
    ELSE Panic(m, "internal error: entered unreachable code")

\* Fault: a ref put in front of the arena, which moves every other ref up.
create_ref_in_front(m, r) ==
    IF Failed(m) THEN m
    ELSE IF Len(m.refs) >= ref_capacity
         THEN create_exception(m, "too many value allocations")
         ELSE [m EXCEPT !.opnd = 0, !.refs = <<r>> \o @]

create_ref(m, r) ==
    IF Failed(m) THEN m
    ELSE IF Len(m.refs) >= ref_capacity
         THEN create_exception(m, "too many value allocations")
         ELSE [m EXCEPT !.opnd = Len(m.refs), !.refs = Append(@, r)]

\* get_ref: &self.refs[id]
get_ref(m, id) ==
    IF Failed(m) THEN m
    ELSE IF id < Len(m.refs) THEN m
    ELSE Panic(m, "index out of bounds")

\* Fault: the charge as a plain subtraction, without checked_sub.
track_array_unchecked(m, count) ==
    IF Failed(m) THEN m ELSE [m EXCEPT !.memory = @ - count * SizeOfValue]

\* track_array(&[Value; count]): size_of_val is count * size_of::<Value>()
track_array(m, count) ==
    IF Failed(m) THEN m
    ELSE IF m.memory >= count * SizeOfValue
         THEN [m EXCEPT !.memory = @ - count * SizeOfValue]
         ELSE create_exception(m, "out of heap memory")

store_context(m) == IF Failed(m) THEN m ELSE [m EXCEPT !.vmfuel = m.fuel]

restore_context(m) == IF Failed(m) THEN m ELSE [m EXCEPT !.fuel = m.vmfuel]

(***************************************************************************)
(* System functions (system.rs).  FnArgs is (base, len); FnArgs::get       *)
(* expects the argument to exist.  The messages are the source's without  *)
(* their backquotes.                                                       *)
(***************************************************************************)
SystemFnIndices ==
    (0..4) \cup (16..44) \cup (64..70) \cup (128..137) \cup {144}
        \cup (192..195) \cup {224, 225}

\* Fault: arguments counted from the top of the stack down.
fnargs_get_reversed(m, base, len, index) ==
    IF Failed(m) THEN m
    ELSE IF index < len THEN [m EXCEPT !.val = m.stack[base + len - index]]
    ELSE Panic(m, "argument was expected, but got None")

\* FnArgs::get over FnArgs::try_get: vm.stack[self.base + index]
fnargs_get(m, base, len, index) ==
    IF Failed(m) THEN m
    ELSE IF index < len THEN [m EXCEPT !.val = m.stack[base + index + 1]]
    ELSE Panic(m, "argument was expected, but got None")

fnargs_get_number(m, base, len, index, message) ==
    LET m1 == fnargs_get(m, base, len, index)
    IN  IF Failed(m1) THEN m1
        ELSE IF m1.val.t = "Number" THEN m1
        ELSE create_exception(m1, message)

add(m, base, len) ==
    LET a == fnargs_get_number(m, base, len, 0, "arguments to + must be numbers")
        b == fnargs_get_number(a, base, len, 1, "arguments to + must be numbers")
    IN  IF Failed(b) THEN b ELSE [b EXCEPT !.val = Number(F32Add(a.val.n, b.val.n))]

sub(m, base, len) ==
    LET a == fnargs_get_number(m, base, len, 0, "arguments to - must be numbers")
        b == fnargs_get_number(a, base, len, 1, "arguments to - must be numbers")
    IN  IF Failed(b) THEN b ELSE [b EXCEPT !.val = Number(F32Sub(a.val.n, b.val.n))]

\* math1 with libm::floorf, which is the identity on the integers
floorf(m, base, len) ==
    IF Failed(m) THEN m
    ELSE IF len # 1 THEN create_exception(m, "floor expects a single argument (floor x)")
    ELSE LET x == fnargs_get_number(m, base, len, 0, "floor argument must be a number")
         IN  IF Failed(x) THEN x
             ELSE [x EXCEPT !.val = Number(IF F32IsSmallInt(x.val.n) THEN x.val.n
                                           ELSE UnmodelledF32)]

\* FnArgs::get_rgba
fnargs_get_rgba(m, base, len, index, message) ==
    LET m1 == fnargs_get(m, base, len, index)
    IN  IF Failed(m1) THEN m1
        ELSE IF m1.val.t = "Rgba" THEN m1
        ELSE create_exception(m1, message)

rgba(m, base, len) ==
    IF Failed(m) THEN m
    ELSE IF len # 4 THEN create_exception(m, "rgba expects four arguments (rgba r g b a)")
    ELSE LET r == fnargs_get_number(m, base, len, 0, "arguments to (rgba r g b a) must be numbers")
             g == fnargs_get_number(r, base, len, 1, "arguments to (rgba r g b a) must be numbers")
             b == fnargs_get_number(g, base, len, 2, "arguments to (rgba r g b a) must be numbers")
             a == fnargs_get_number(b, base, len, 3, "arguments to (rgba r g b a) must be numbers")
         IN  IF Failed(a) THEN a
             ELSE [a EXCEPT !.val = RgbaValue(r.val.n, g.val.n, b.val.n, a.val.n)]

rgba_r(m, base, len) ==
    IF Failed(m) THEN m
    ELSE IF len # 1 THEN create_exception(m, "rgbaR expects a single argument (rgbaR rgba)")
    ELSE LET c == fnargs_get_rgba(m, base, len, 0, "argument to (rgbaR rgba) must be an rgba")
         IN  IF Failed(c) THEN c ELSE [c EXCEPT !.val = Number(c.val.r)]

\* rgba_g, rgba_b and rgba_a each end in Ok(Value::Number(rgba.r))
rgba_g(m, base, len) ==
    IF Failed(m) THEN m
    ELSE IF len # 1 THEN create_exception(m, "rgbaG expects a single argument (rgbaG rgba)")
    ELSE LET c == fnargs_get_rgba(m, base, len, 0, "argument to (rgbaG rgba) must be an rgba")
         IN  IF Failed(c) THEN c ELSE [c EXCEPT !.val = Number(c.val.r)]

rgba_b(m, base, len) ==
    IF Failed(m) THEN m
    ELSE IF len # 1 THEN create_exception(m, "rgbaB expects a single argument (rgbaB rgba)")
    ELSE LET c == fnargs_get_rgba(m, base, len, 0, "argument to (rgbaB rgba) must be an rgba")
         IN  IF Failed(c) THEN c ELSE [c EXCEPT !.val = Number(c.val.r)]

rgba_a(m, base, len) ==
    IF Failed(m) THEN m
    ELSE IF len # 1 THEN create_exception(m, "rgbaA expects a single argument (rgbaA rgba)")
    ELSE LET c == fnargs_get_rgba(m, base, len, 0, "argument to (rgbaA rgba) must be an rgba")
         IN  IF Failed(c) THEN c ELSE [c EXCEPT !.val = Number(c.val.r)]

\* The call through system.fns[index]; the functions the brushes of this model
\* do not call are not interpreted.
system_fn(m, index, base, len) ==
    IF Failed(m) THEN m
    ELSE IF index = SystemAdd THEN add(m, base, len)
    ELSE IF index = SystemSub THEN sub(m, base, len)
    ELSE IF index = SystemFloor THEN floorf(m, base, len)
    ELSE IF index = SystemRgba THEN rgba(m, base, len)
    ELSE IF index = SystemRgbaR THEN rgba_r(m, base, len)
    ELSE IF index = SystemRgbaG THEN rgba_g(m, base, len)
    ELSE IF index = SystemRgbaB THEN rgba_b(m, base, len)
    ELSE IF index = SystemRgbaA THEN rgba_a(m, base, len)
    ELSE [m EXCEPT !.err = [kind |-> "unmodelled", message |-> "system function"]]

(***************************************************************************)
(* Vm::run (vm.rs).  run_enter is the code before the loop, exec one       *)
(* iteration of the loop, run_exit the code after it.                      *)
(***************************************************************************)
run_enter(m, closure_id) ==
    LET m1 == get_ref(m, closure_id)
    IN  IF Failed(m1) THEN m1
        ELSE LET closure == m.refs[closure_id + 1]
             IN  IF closure.k # "Closure"
                 THEN Panic(m1, "a Closure-type Ref must be passed to run")
                 ELSE LET m2 == system_chunk([m1 EXCEPT !.closure_id = closure_id],
                                             closure.chunk_id)
                          m3 == IF Failed(m2) THEN m2
                                ELSE [m2 EXCEPT !.pc = closure.offset,
                                                !.bottom = Len(m.stack),
                                                !.fuel = m.vmfuel,
                                                !.init_bottom = Len(m.stack)]
                          m4 == push_nils(m3, closure.local_count)
                      IN  push_call(m4, CallFrame(m4))

\* Fault: an iteration that costs no fuel.
consume_fuel_free(m) == m

\* fuel = fuel.checked_sub(1).ok_or_else(|| "code ran for too long")?
consume_fuel(m) ==
    IF Failed(m) THEN m
    ELSE IF m.fuel = 0 THEN create_exception(m, "code ran for too long")
    ELSE [m EXCEPT !.fuel = @ - 1]

\* The slot `SetLocal index` writes: self.get_mut(index)
set_local_slot(m, index) == index

\* The slot `Local index` reads: self.get(bottom + index)
local_slot(m, index) == m.bottom + index

\* Fault: a capture that reads nothing of what the closure holds.
capture_of_nothing(m, index, message) == [m EXCEPT !.val = Nil]

\* closure.captures.get(index) of the running closure
capture_of(m, index, message) ==
    LET m1 == get_ref(m, m.closure_id)
    IN  IF Failed(m1) THEN m1
        ELSE LET closure == m.refs[m.closure_id + 1]
             IN  IF closure.k # "Closure"
                 THEN Panic(m1, "called Option::unwrap() on a None value")
                 ELSE IF index < Len(closure.elems)
                      THEN [m1 EXCEPT !.val = closure.elems[index + 1]]
                      ELSE create_exception(m1, message)

RECURSIVE read_captures(_, _)
read_captures(m, count) ==
    IF count = 0 \/ Failed(m) THEN m
    ELSE LET k == read_u8(m)
             i == read_u8(k)
             c == IF Failed(i) THEN i
                  ELSE IF k.opnd = CAPTURE_LOCAL THEN get(i, i.bottom + i.opnd)
                  ELSE IF k.opnd = CAPTURE_CAPTURE
                       THEN capture_of(i, i.opnd,
                              "corrupted bytecode (captured capture index out of bounds)")
                  ELSE [i EXCEPT !.val = Nil]
         IN  read_captures(IF Failed(c) THEN c ELSE [c EXCEPT !.caps = Append(@, c.val)],
                           count - 1)

\* byte as f32 / 255.0, exact for 0 and for 255
U8Unit(byte) ==
    IF byte = 0 THEN IntToF32(0) ELSE IF byte = 255 THEN IntToF32(1) ELSE UnmodelledF32

exec_rgba(m) ==
    LET r == read_u8(m)
        g == read_u8(r)
        b == read_u8(g)
        a == read_u8(b)
    IN  push(a, RgbaValue(U8Unit(r.opnd), U8Unit(g.opnd), U8Unit(b.opnd), U8Unit(a.opnd)))

exec_local(m) ==
    LET i == read_u8(m)
        v == get(i, local_slot(i, i.opnd))
    IN  push(v, v.val)

exec_set_local(m) ==
    LET i == read_u8(m)
        v == pop(i)
    IN  get_mut(v, set_local_slot(v, i.opnd), v.val)

exec_capture(m) ==
    LET i == read_u8(m)
        c == capture_of(i, i.opnd, "corrupted bytecode (capture index out of bounds)")
    IN  push(c, c.val)

exec_def(m) ==
    LET i == read_u16(m)
    IN  IF Failed(i) THEN i
        ELSE IF i.opnd < Len(i.defs) THEN push(i, i.defs[i.opnd + 1])
        ELSE create_exception(i, "corrupted bytecode (def index out of bounds)")

\* Fault: a SetDef that pops the value and stores nothing.
exec_set_def_lost(m) == pop(read_u16(m))

exec_set_def(m) ==
    LET i == read_u16(m)
        v == pop(i)
    IN  IF Failed(v) THEN v
        ELSE IF i.opnd < Len(v.defs) THEN [v EXCEPT !.defs[i.opnd + 1] = v.val]
        ELSE create_exception(v, "corrupted bytecode (set def index out of bounds)")

exec_list(m) ==
    LET n == read_u16(m)
    IN  IF Failed(n) THEN n
        ELSE IF Len(n.stack) < n.opnd
        THEN create_exception(n, "corrupted bytecode (list has more elements than stack)")
        ELSE LET bottom == Len(n.stack) - n.opnd
                 elements == SubSeq(n.stack, bottom + 1, Len(n.stack))
                 t == truncate_stack(n, bottom)
                 a == track_array(t, Len(elements))
                 r == create_ref(a, ListRef(elements))
             IN  push(r, RefValue(r.opnd))

exec_function(m) ==
    LET p == read_u8(m)
        t == read_u16(p)
        body == t.pc
        l == read_u8(IF Failed(t) THEN t ELSE [t EXCEPT !.pc = t.opnd])
        n == read_u8(l)
        c == read_captures(IF Failed(n) THEN n ELSE [n EXCEPT !.caps = <<>>], n.opnd)
        r == create_ref(c, ClosureRef(c.chunk_id, body % 65536, p.opnd, l.opnd, c.caps))
    IN  push(r, RefValue(r.opnd))

exec_jump(m) ==
    LET o == read_u16(m)
    IN  IF Failed(o) THEN o ELSE [o EXCEPT !.pc = o.opnd]

exec_jump_if_not(m) ==
    LET o == read_u16(m)
        v == pop(o)
    IN  IF Failed(v) THEN v
        ELSE IF ~is_truthy(v.val) THEN [v EXCEPT !.pc = o.opnd]
        ELSE v

\* Fault: a Call that does not compare the argument count with param_count.
exec_call_unchecked(m) ==
    LET a == read_u8(m)
        argument_count == a.opnd
        f == pop(a)
    IN  IF Failed(f) THEN f
        ELSE IF f.val.t # "Ref"
        THEN create_exception(f, "attempt to call non-function value")
        ELSE LET g == get_ref(f, f.val.n)
             IN  IF Failed(g) THEN g
                 ELSE LET closure == g.refs[f.val.n + 1]
                      IN  IF closure.k # "Closure"
                          THEN create_exception(g, "attempt to call non-function value")
                          ELSE LET j == system_chunk([g EXCEPT !.closure_id = f.val.n],
                                                     closure.chunk_id)
                                   k == IF Failed(j) THEN j
                                        ELSE IF Len(j.stack) >= argument_count
                                        THEN [j EXCEPT !.pc = closure.offset,
                                                       !.bottom = Len(j.stack) - argument_count]
                                        ELSE create_exception(j,
                                               "corrupted bytecode (not enough values on the stack for arguments)")
                               IN  push_call(push_nils(k, closure.local_count), CallFrame(g))

exec_call(m) ==
    LET a == read_u8(m)
        argument_count == a.opnd
        f == pop(a)
    IN  IF Failed(f) THEN f
        ELSE IF f.val.t # "Ref"
        THEN create_exception(f, "attempt to call non-function value")
        ELSE LET g == get_ref(f, f.val.n)
             IN  IF Failed(g) THEN g
                 ELSE LET closure == g.refs[f.val.n + 1]
                      IN  IF closure.k # "Closure"
                          THEN create_exception(g, "attempt to call non-function value")
                          ELSE IF argument_count # closure.param_count
                          THEN create_exception(g, "function parameter count mismatch")
                          ELSE LET frame == CallFrame(g)
                                   j == system_chunk([g EXCEPT !.closure_id = f.val.n],
                                                     closure.chunk_id)
                                   k == IF Failed(j) THEN j
                                        ELSE IF Len(j.stack) >= argument_count
                                        THEN [j EXCEPT !.pc = closure.offset,
                                                       !.bottom = Len(j.stack) - argument_count]
                                        ELSE create_exception(j,
                                               "corrupted bytecode (not enough values on the stack for arguments)")
                                   l == push_nils(k, closure.local_count)
                               IN  push_call(l, frame)

exec_system(m) ==
    LET i == read_u8(m)
        a == read_u8(i)
        argument_count == a.opnd
    IN  IF Failed(a) THEN a
        ELSE IF i.opnd \notin SystemFnIndices
        THEN create_exception(a, "corrupted bytecode (invalid system function index)")
        ELSE LET s == store_context(a)
             IN  IF Len(s.stack) < argument_count
                 THEN create_exception(s,
                        "corrupted bytecode (not enough values on the stack for arguments)")
                 ELSE LET r == system_fn(s, i.opnd, Len(s.stack) - argument_count,
                                         argument_count)
                          c == restore_context(r)
                          t == truncate_stack(c, Len(c.stack) - argument_count)
                      IN  push(t, r.val)

\* Fault: a Return that halts the Vm whatever frames are left.
exec_return_halting(m) ==
    LET v == pop(m)
        f == pop_call(v)
        t == truncate_stack(f, f.bottom)
        p == push(t, v.val)
    IN  IF Failed(p) THEN p ELSE [store_context(p) EXCEPT !.halted = TRUE]

exec_return(m) ==
    LET v == pop(m)
        f == pop_call(v)
        t == truncate_stack(f, f.bottom)
        p == push(t, v.val)
    IN  IF Failed(p) THEN p
        ELSE IF Len(p.call_stack) = 0 THEN [store_context(p) EXCEPT !.halted = TRUE]
        ELSE system_chunk([p EXCEPT !.closure_id = p.frame.closure_id,
                                    !.pc = p.frame.pc,
                                    !.bottom = p.frame.bottom],
                          p.frame.chunk_id)

exec_number(m) ==
    LET x == read_f32(m)
    IN  push(x, Number(x.opnd))

exec_opcode(m, opcode) ==
    CASE opcode = "Nil" -> push(m, Nil)
      [] opcode = "False" -> push(m, False)
      [] opcode = "True" -> push(m, True)
      [] opcode = "Number" -> exec_number(m)
      [] opcode = "Rgba" -> exec_rgba(m)
      [] opcode = "Local" -> exec_local(m)
      [] opcode = "SetLocal" -> exec_set_local(m)
      [] opcode = "Capture" -> exec_capture(m)
      [] opcode = "Def" -> exec_def(m)
      [] opcode = "SetDef" -> exec_set_def(m)
      [] opcode = "List" -> exec_list(m)
      [] opcode = "Function" -> exec_function(m)
      [] opcode = "Jump" -> exec_jump(m)
      [] opcode = "JumpIfNot" -> exec_jump_if_not(m)
      [] opcode = "Call" -> exec_call(m)
      [] opcode = "System" -> exec_system(m)
      [] opcode = "Return" -> exec_return(m)

\* One iteration of the loop of run.
exec(m) ==
    LET f == consume_fuel(m)
        o == read_opcode(f)
    IN  IF Failed(o) THEN o ELSE exec_opcode(o, Opcode[o.opnd + 1])

\* After the loop: the result is popped and the stack cut back to its entry length.
run_exit(m) ==
    LET r == IF Len(m.stack) > 0 THEN pop(m)
             ELSE Panic(m, "there should be a result at the top of the stack")
    IN  truncate_stack(r, r.init_bottom)


\* The loop of run, to its end: fuel bounds the number of iterations.
RECURSIVE run_loop(_)
run_loop(m) ==
    IF Failed(m) \/ m.halted THEN m
    ELSE CHOOSE r \in {run_loop(n) : n \in {exec(m)}} : TRUE

\* Vm::run as one call
run(m, closure_id) ==
    LET l == run_loop(run_enter(m, closure_id))
    IN  IF Failed(l) THEN l ELSE run_exit(l)

(***************************************************************************)
(* Vm's images (vm.rs), System and Defs (system.rs, bytecode.rs).          *)
(***************************************************************************)
\* Vm::new
VmNew(defs_len) ==
    [stack |-> <<>>, call_stack |-> <<>>, refs |-> <<>>,
     defs |-> [i \in 1..defs_len |-> Nil],
     fuel |-> fuel_limit, memory |-> memory_limit]

\* Vm::image, past its assertion
VmImage(v) ==
    [stack |-> Len(v.stack), call_stack |-> Len(v.call_stack), refs |-> Len(v.refs),
     defs |-> Len(v.defs), fuel |-> v.fuel, memory |-> v.memory]

ImageIsSubset(v, i) ==
    /\ i.stack <= Len(v.stack)
    /\ i.call_stack <= Len(v.call_stack)
    /\ i.refs <= Len(v.refs)
    /\ i.defs <= Len(v.defs)

\* Fault: a restore that forgets fuel and memory.
restore_image_vectors(v, i) ==
    [stack |-> resize_with(v.stack, i.stack),
     call_stack |-> resize_with(v.call_stack, i.call_stack),
     refs |-> resize_with(v.refs, i.refs),
     defs |-> resize_with(v.defs, i.defs),
     fuel |-> v.fuel, memory |-> v.memory]

\* Fault: a restore that leaves the refs of the last run in the arena.
restore_image_refs_kept(v, i) ==
    [stack |-> resize_with(v.stack, i.stack),
     call_stack |-> resize_with(v.call_stack, i.call_stack),
     refs |-> v.refs,
     defs |-> resize_with(v.defs, i.defs),
     fuel |-> i.fuel, memory |-> i.memory]

\* Vm::restore_image, when no resize_with has to grow a vector
restore_image(v, i) ==
    [stack |-> resize_with(v.stack, i.stack),
     call_stack |-> resize_with(v.call_stack, i.call_stack),
     refs |-> resize_with(v.refs, i.refs),
     defs |-> resize_with(v.defs, i.defs),
     fuel |-> i.fuel, memory |-> i.memory]

\* Vm::apply_defs, past its assertion: self.defs.resize(defs.len(), Value::Nil)
apply_defs(v, defs_len) ==
    [v EXCEPT !.defs = [i \in 1..defs_len |-> IF i <= Len(v.defs) THEN v.defs[i] ELSE Nil]]

Range(s) == {s[i] : i \in 1..Len(s)}

\* Defs::get: the position of the name
defs_get(table, name) ==
    IF name \in Range(table) THEN (CHOOSE i \in 1..Len(table) : table[i] = name) - 1
    ELSE 0 - 1

\* Defs::add on the compiler's state c = [defs, diagnostics], with the
\* diagnostics def_prepass emits for its two errors
defs_add(c, name) ==
    IF name \in Range(c.defs)
    THEN [c EXCEPT !.diagnostics = @ \cup {"redefinitions of defs are not allowed"}]
    ELSE IF Len(c.defs) >= max_defs
    THEN [c EXCEPT !.diagnostics = @ \cup {"too many defs"}]
    ELSE [c EXCEPT !.defs = Append(@, name)]

\* Fault: a prepass that registers no name.
def_prepass_none(c, def_names) == c

RECURSIVE def_prepass(_, _)
def_prepass(c, def_names) ==
    IF def_names = <<>> THEN c
    ELSE def_prepass(defs_add(c, Head(def_names)), Tail(def_names))

\* compile_ident, for a name that is no local: the diagnostics it emits
compile_ident(table, name) ==
    IF defs_get(table, name) >= 0 THEN {} ELSE {"undefined variable"}

\* The DefId a name compiles to: compile_def falls back to DefId 0
\* (unwrap_or_default) for a name the table lacks.
def_id(table, name) == IF defs_get(table, name) >= 0 THEN defs_get(table, name) ELSE 0

\* The chunk of a source, its names resolved in the def table.
compile_chunk(src, table) ==
    CASE src.name = "issue_78" -> Issue78Code(def_id(table, "f"))
      [] src.name = "botsbuildbots" -> BotsbuildbotsCode(def_id(table, "botsbuildbots"))
      [] src.name = "list_error" -> ListErrorCode(def_id(table, "l"))
      [] src.name = "let" -> LetCode
      [] src.name = "forward_def" -> ForwardDefCode(def_id(table, "x"), def_id(table, "y"))
      [] src.name = "call_f" -> CallFCode(def_id(table, "f"))
      [] src.name = "function_closure" -> FunctionClosureCode
      [] src.name = "list" -> ListCode
      [] src.name = "param_count" -> ParamCountCode
      [] src.name = "def_simple" -> DefSimpleCode(def_id(table, "x"), def_id(table, "y"))
      [] src.name = "def_mutually_recursive" ->
            DefMutuallyRecursiveCode(def_id(table, "f"), def_id(table, "g"))
      [] src.name = "rgbaR" -> RgbaGetterCode(SystemRgbaR)
      [] src.name = "rgbaG" -> RgbaGetterCode(SystemRgbaG)
      [] src.name = "rgbaB" -> RgbaGetterCode(SystemRgbaB)
      [] src.name = "rgbaA" -> RgbaGetterCode(SystemRgbaA)
      [] src.name = "call_let" -> CallLetCode(def_id(table, "f"))
      [] src.name = "sub" -> SubCode
      [] src.name = "nested_list" -> NestedListCode

\* compile_toplevel: the prepass, then the chunk with every name resolved in the
\* table the prepass left.
compile_toplevel(table, src) ==
    LET p == def_prepass([defs |-> table, diagnostics |-> {}], src.def_names)
    IN  [defs |-> p.defs,
         diagnostics |-> p.diagnostics
            \cup UNION {compile_ident(p.defs, n) : n \in src.idents},
         chunk |-> compile_chunk(src, p.defs),
         local_count |-> src.local_count]

\* Fault: a reset that keeps the def table.
defs_keep(table, defs_image) == table

\* Defs::restore_image: self.defs.resize_with(image.defs, ..)
defs_restore_image(table, defs_image) == resize_with(table, defs_image)

\* System::restore_image: self.chunks.resize_with(image.chunks, ..)
system_restore_image(cs, system_image) == resize_with(cs, system_image)

(***************************************************************************)
(* Haku, the facade (crates/rkgk/src/haku.rs).  Its images are the ones    *)
(* Haku::new takes of an empty System, an empty Defs and a new Vm.         *)
(***************************************************************************)
NoBrush == [some |-> FALSE, chunk_id |-> 0, local_count |-> 0]

SomeBrush(chunk_id, local_count) ==
    [some |-> TRUE, chunk_id |-> chunk_id, local_count |-> local_count]

\* Haku::reset on h = [chunks, defs, brush]
reset(h) ==
    [h EXCEPT !.chunks = system_restore_image(@, 0),
              !.defs = defs_restore_image(@, 0)]

\* System::add_chunk and the rest of set_brush, after the compiler ran clean
add_chunk(h, c) ==
    IF Len(h.chunks) >= max_chunks
    THEN [chunks |-> h.chunks, defs |-> c.defs, brush |-> h.brush,
          ok |-> FALSE, message |-> "too many chunks", diagnostics |-> {}]
    ELSE [chunks |-> Append(h.chunks, c.chunk), defs |-> c.defs,
          brush |-> SomeBrush(Len(h.chunks), c.local_count),
          ok |-> TRUE, message |-> "", diagnostics |-> {}]

\* Haku::set_brush
set_brush(h, src) ==
    LET r == reset(h)
        c == compile_toplevel(r.defs, src)
    IN  IF c.diagnostics # {}
        THEN [chunks |-> r.chunks, defs |-> c.defs, brush |-> r.brush,
              ok |-> FALSE, message |-> "diagnostics were emitted",
              diagnostics |-> c.diagnostics]
        ELSE add_chunk(r, c)

\* Haku::eval_brush on the machine of the idle Vm
eval_brush(m, br, table) ==
    IF ~br.some
    THEN [m EXCEPT !.err = [kind |-> "error",
                            message |-> "brush is not compiled and ready to be used"]]
    ELSE IF Len(table) < Len(m.defs)
    THEN Panic(m, "defs must be a superset of the current VM")
    ELSE LET a == [m EXCEPT !.defs = apply_defs(m, Len(table)).defs]
             r == create_ref(a, ClosureChunk(br.chunk_id, br.local_count))
         IN  run(r, r.opnd)

\* Haku::reset_vm
reset_vm(m, i) ==
    IF Failed(m) THEN m
    ELSE IF ~ImageIsSubset(m, i) THEN Panic(m, "image must be a subset of the current VM")
    ELSE LET v == restore_image(VmOf(m), i)
         IN  [m EXCEPT !.stack = v.stack, !.call_stack = v.call_stack, !.refs = v.refs,
                       !.defs = v.defs, !.vmfuel = v.fuel, !.memory = v.memory]

(***************************************************************************)
(* History.  hist describes the last call: op names it; entry is the       *)
(* VmImage-shaped summary of the Vm it started from and before the one     *)
(* restore_image cut back; unrestored tells that a run raised an exception *)
(* and no image was restored since.                                        *)
(***************************************************************************)
NoResult == [kind |-> "none", message |-> "", value |-> Nil]

Outcome(m) ==
    IF Failed(m) THEN [kind |-> m.err.kind, message |-> m.err.message, value |-> Nil]
    ELSE [kind |-> "ok", message |-> "", value |-> m.val]

\* A panic unwinds out of the host's thread: nothing runs after it.
Alive == result.kind \notin {"panic", "unmodelled"}

NoImage == [stack |-> 0, call_stack |-> 0, refs |-> 0, defs |-> 0, fuel |-> 0, memory |-> 0]

HistInit ==
    [op |-> "new", src |-> 0, executed |-> 0, looped |-> FALSE, toplevel |-> FALSE,
     unrestored |-> FALSE, entry_unrestored |-> FALSE, entry |-> NoImage,
     before |-> NoImage, evaluated |-> FALSE, diagnostics |-> {}, defs_before |-> <<>>]

\* What every call keeps of the history.
Sticky(op) == [HistInit EXCEPT !.op = op, !.src = hist.src, !.unrestored = hist.unrestored]

(***************************************************************************)
(* The Vm under a host that calls it directly, as tests/language.rs does:  *)
(* a System of one chunk, the brush compiled against an empty Defs, and a  *)
(* new Vm.                                                                 *)
(***************************************************************************)
Init ==
    \E b \in 1..Len(Sources) :
        LET c == compile_toplevel(<<>>, Sources[b])
        IN  /\ c.diagnostics = {}
            /\ chunks = <<c.chunk>>
            /\ defs = c.defs
            /\ brush = SomeBrush(0, c.local_count)
            /\ brush_ok = TRUE
            /\ vm = VmNew(0)
            /\ cur = Idle
            /\ result = NoResult
            /\ image = VmImage(VmNew(0))
            /\ hist = [HistInit EXCEPT !.src = b]
            /\ front = NoFront

\* vm.image(): the assertion refuses a Vm with values or frames left on it.
Image ==
    /\ Alive /\ ~cur.running
    /\ IF vm.stack = <<>> /\ vm.call_stack = <<>>
       THEN /\ image' = VmImage(vm)
            /\ result' = NoResult
       ELSE /\ image' = image
            /\ result' = [kind |-> "panic", message |-> "cannot image VM while running code",
                          value |-> Nil]
    /\ hist' = Sticky("image")
    /\ UNCHANGED <<chunks, vm, cur, brush, brush_ok, defs, front>>

RestoreImage ==
    /\ Alive /\ ~cur.running
    /\ LET m == reset_vm(Machine(vm, Idle), image)
       IN  /\ vm' = VmOf(m)
           /\ result' = IF Failed(m) THEN Outcome(m) ELSE NoResult
           /\ hist' = [Sticky("restore_image") EXCEPT !.unrestored = @ /\ Failed(m),
                                                      !.before = VmImage(vm)]
    /\ UNCHANGED <<chunks, cur, image, brush, brush_ok, defs, front>>

ApplyDefs(defs_len) ==
    /\ Alive /\ ~cur.running
    /\ IF defs_len >= Len(vm.defs)
       THEN /\ vm' = apply_defs(vm, defs_len)
            /\ result' = NoResult
       ELSE /\ vm' = vm
            /\ result' = [kind |-> "panic", message |-> "defs must be a superset of the current VM",
                          value |-> Nil]
    /\ hist' = Sticky("apply_defs")
    /\ UNCHANGED <<chunks, cur, image, brush, brush_ok, defs, front>>

\* vm.create_ref(Ref::Closure(Closure::chunk(chunk_id, closure_spec)))
CreateRef ==
    /\ Alive /\ ~cur.running
    /\ LET m == create_ref(Machine(vm, Idle),
                           ClosureChunk(brush.chunk_id, brush.local_count))
       IN  /\ vm' = VmOf(m)
           /\ result' = IF Failed(m) THEN Outcome(m) ELSE NoResult
    /\ hist' = Sticky("create_ref")
    /\ UNCHANGED <<chunks, cur, image, brush, brush_ok, defs, front>>

\* The end of a call of run: Ok(value), Err(exception) or a panic.
Finish(m, h) ==
    /\ vm' = VmOf(m)
    /\ cur' = Idle
    /\ result' = Outcome(m)
    /\ hist' = [h EXCEPT !.unrestored = @ \/ Failed(m)]

\* vm.run(&system, closure_id), up to the loop
Run(closure_id) ==
    /\ Alive /\ ~cur.running
    /\ LET m == run_enter(Machine(vm, Idle), closure_id)
           closure == vm.refs[closure_id + 1]
           h == [Sticky("run") EXCEPT !.entry = VmImage(vm),
                                      !.entry_unrestored = hist.unrestored,
                                      !.toplevel = closure = ClosureChunk(brush.chunk_id,
                                                                          brush.local_count)]
       IN  IF Failed(m)
           THEN Finish(m, h)
           ELSE /\ vm' = VmOf(m)
                /\ cur' = CurOf(m, TRUE)
                /\ result' = NoResult
                /\ hist' = [h EXCEPT !.looped = TRUE]
    /\ UNCHANGED <<chunks, image, brush, brush_ok, defs, front>>

\* One iteration of the loop of run; executed counts the opcodes fetched.
Step ==
    /\ cur.running
    /\ LET f == consume_fuel(Machine(vm, cur))
           h == [hist EXCEPT !.executed = IF Failed(f) THEN @ ELSE @ + 1]
           m == exec(Machine(vm, cur))
       IN  IF Failed(m) THEN Finish(m, h)
           ELSE IF m.halted THEN Finish(run_exit(m), h)
           ELSE /\ vm' = VmOf(m)
                /\ cur' = CurOf(m, TRUE)
                /\ result' = result
                /\ hist' = h
    /\ UNCHANGED <<chunks, image, brush, brush_ok, defs, front>>

Next ==
    \/ Image
    \/ RestoreImage
    \/ \E defs_len \in {0, Len(defs)} : ApplyDefs(defs_len)
    \/ CreateRef
    \/ \E closure_id \in 0..(Len(vm.refs) - 1) : Run(closure_id)
    \/ Step

Spec == Init /\ [][Next]_vars

(***************************************************************************)
(* The render thread of a session (crates/rkgk/src/api/wall.rs): it owns   *)
(* one Haku and handles the session's RenderCommands one at a time.        *)
(* Drawing the value reads the Vm and leaves it as it is.                  *)
(***************************************************************************)
\* Haku::new and `let mut brush_ok = false`
InitRender ==
    /\ chunks = <<>>
    /\ defs = <<>>
    /\ brush = NoBrush
    /\ brush_ok = FALSE
    /\ vm = VmNew(0)
    /\ cur = Idle
    /\ result = NoResult
    /\ image = VmImage(VmNew(0))
    /\ hist = HistInit
    /\ front = NoFront

\* RenderCommand::SetBrush { brush }: brush_ok = haku.set_brush(&brush).is_ok()
SetBrushCommand(b) ==
    /\ Alive
    /\ LET h == set_brush([chunks |-> chunks, defs |-> defs, brush |-> brush], Sources[b])
       IN  /\ chunks' = h.chunks
           /\ defs' = h.defs
           /\ brush' = h.brush
           /\ brush_ok' = h.ok
           /\ result' = IF h.ok THEN NoResult
                        ELSE [kind |-> "error", message |-> h.message, value |-> Nil]
           /\ hist' = [Sticky("set_brush") EXCEPT !.src = b,
                                                 !.diagnostics = h.diagnostics,
                                                 !.defs_before = defs]
    /\ UNCHANGED <<vm, cur, image>>

\* RenderCommand::Plot { points, done }
PlotCommand ==
    /\ Alive
    /\ IF brush_ok
       THEN \E m \in {eval_brush(Machine(vm, Idle), brush, defs)} :
            LET r == IF Failed(m) THEN m ELSE reset_vm(m, image)
            IN  /\ vm' = VmOf(r)
                /\ result' = Outcome(r)
                /\ hist' = [Sticky("plot") EXCEPT !.evaluated = TRUE,
                                                  !.entry = VmImage(vm),
                                                  !.entry_unrestored = hist.unrestored,
                                                  !.unrestored = (@ /\ Failed(m))
                                                                 \/ m.err.kind = "exception"]
       ELSE /\ vm' = vm
            /\ result' = NoResult
            /\ hist' = Sticky("plot")
    /\ UNCHANGED <<chunks, cur, image, brush, brush_ok, defs>>

\* The render thread taking its commands from any sender
SetBrush(b) == SetBrushCommand(b) /\ UNCHANGED front

Plot == PlotCommand /\ UNCHANGED front

NextRender ==
    \/ \E b \in 1..Len(Sources) : SetBrush(b)
    \/ Plot

SpecRender == InitRender /\ [][NextRender]_vars

(***************************************************************************)
(* The Vm running a chunk of arbitrary bytes: every sequence of at most    *)
(* MaxChunkLen bytes of ChunkBytes, registered as chunk 0 with no defs.    *)
(***************************************************************************)
MaxChunkLen == 3

\* Nil, Def, System, Return; as operands also the indices of `+` and `floor`,
\* and two numbers that are no system function
ChunkBytes == {Op("Nil"), Op("Def"), Op("System"), Op("Return")}

ByteSeqs(n) == UNION {[1..k -> ChunkBytes] : k \in 0..n}

InitChunk ==
    /\ chunks \in {<<bytecode>> : bytecode \in ByteSeqs(MaxChunkLen)}
    /\ defs = <<>>
    /\ brush = SomeBrush(0, 0)
    /\ brush_ok = TRUE
    /\ vm = VmNew(0)
    /\ cur = Idle
    /\ result = NoResult
    /\ image = VmImage(VmNew(0))
    /\ hist = HistInit
    /\ front = NoFront

NextChunk ==
    \/ CreateRef
    \/ \E closure_id \in 0..(Len(vm.refs) - 1) : Run(closure_id)
    \/ Step

SpecChunk == InitChunk /\ [][NextChunk]_vars

\* Every system function a brush of this model calls is interpreted.
AllModelled == result.kind # "unmodelled" /\ (result.value.t = "Number" => result.value.n >= 0)

(***************************************************************************)
(* Properties.                                                             *)
(***************************************************************************)
RunEnded == hist.op = "run" /\ ~cur.running

Raised(message) == result.kind = "exception" /\ result.message = message

\* The loop of run is about to fetch this opcode, with fuel to do so.
AtOpcode(name) ==
    /\ cur.running
    /\ cur.fuel > 0
    /\ cur.pc < Len(chunks[cur.chunk_id + 1])
    /\ chunks[cur.chunk_id + 1][cur.pc + 1] = Op(name)

\* The byte k places after the opcode at pc.
Operand(k) == chunks[cur.chunk_id + 1][cur.pc + 1 + k]

\* The run in progress or just ended is of the brush's toplevel closure, on a Vm
\* with the brush's defs applied and nothing left over by an exception.
ProperRun ==
    /\ hist.op = "run" /\ hist.toplevel
    /\ ~hist.entry_unrestored
    /\ hist.entry.stack = 0 /\ hist.entry.call_stack = 0
    /\ hist.entry.defs = Len(defs)

\* C1: in every call frame of a run of a compiled brush, a `SetLocal i` leaves
\* the value it popped in stack[bottom + i], the slot `Local i` reads.
SetLocalWritesWindow ==
    [][(ProperRun /\ AtOpcode("SetLocal") /\ cur.pc + 1 < Len(chunks[cur.chunk_id + 1]))
        => /\ cur'.running
           /\ cur.bottom + Operand(1) < Len(vm'.stack)
           /\ vm'.stack[cur.bottom + Operand(1) + 1] = vm.stack[Len(vm.stack)]]_vars

\* C2: a call of run fetches at most as many opcodes as the Vm had fuel at entry,
\* one unit of fuel is paid before each fetch, and with no fuel at entry the loop
\* raises "code ran for too long" before it fetches anything.
FuelBoundsRun ==
    /\ hist.op = "run" => hist.executed <= hist.entry.fuel
    /\ cur.running => cur.fuel = hist.entry.fuel - hist.executed
    /\ (RunEnded /\ Raised("code ran for too long")) => hist.executed = hist.entry.fuel
    /\ (RunEnded /\ hist.looped /\ hist.entry.fuel = 0)
        => hist.executed = 0 /\ Raised("code ran for too long")

\* C2 witness: a run entered with no fuel left has ended on its first iteration.
FuelZeroRunRaised ==
    /\ RunEnded /\ hist.looped
    /\ hist.entry.fuel = 0
    /\ hist.executed = 0
    /\ Raised("code ran for too long")

\* C3: after restore_image(i) the Vm's stack, call stack, refs and defs have the
\* lengths recorded in i and its fuel and memory are i's, whatever apply_defs,
\* create_ref and run did since i was taken.
RestoreImageRestores ==
    hist.op = "restore_image" => (result = NoResult /\ VmImage(vm) = image)

\* C3 witness: an image was restored over a Vm that a raising run had left with a
\* longer stack, call stack, ref arena and def vector, and less fuel and memory.
RestoredAfterRaise ==
    /\ hist.op = "restore_image"
    /\ hist.before.stack > image.stack
    /\ hist.before.call_stack > image.call_stack
    /\ hist.before.refs > image.refs
    /\ hist.before.defs > image.defs
    /\ hist.before.fuel < image.fuel
    /\ hist.before.memory < image.memory

\* C4: a run started on a Vm on which an earlier run raised an exception, with no
\* image restored in between, does not return a value.
UnrestoredRunRefused ==
    (RunEnded /\ hist.entry_unrestored) => result.kind # "ok"

\* C5: every eval_brush of the render thread starts from the recorded Vm image:
\* empty stack and call stack, no refs of earlier plots, full fuel and memory.
PlotStartsFromImage ==
    (hist.op = "plot" /\ hist.evaluated) => hist.entry = image

WithinCapacity ==
    /\ Len(vm.stack) <= stack_capacity
    /\ Len(vm.call_stack) <= call_stack_capacity
    /\ Len(vm.refs) <= ref_capacity
    /\ Raised("too many temporary values (local variables and expression operands)")
        => Len(vm.stack) = stack_capacity
    /\ Raised("too much recursion") => Len(vm.call_stack) = call_stack_capacity
    /\ Raised("too many value allocations") => Len(vm.refs) = ref_capacity

\* C7 witness: a push on a full stack raised.
StackCeilingHit ==
    /\ RunEnded
    /\ Raised("too many temporary values (local variables and expression operands)")
    /\ Len(vm.stack) = stack_capacity

\* The run that ended was of the toplevel of botsbuildbots on a Vm with an empty
\* stack and call stack, its def applied, a free ref slot for the function, fuel
\* for 2 + 3 * call_stack_capacity opcodes and stack for one value per frame.
BotsbuildbotsRan ==
    /\ RunEnded /\ hist.toplevel
    /\ Sources[hist.src].name = "botsbuildbots"
    /\ hist.entry.stack = 0 /\ hist.entry.call_stack = 0
    /\ hist.entry.defs = 1
    /\ hist.entry.refs < ref_capacity
    /\ hist.entry.fuel >= 2 + 3 * call_stack_capacity
    /\ stack_capacity > call_stack_capacity

\* C8: botsbuildbots raises "too much recursion" at the first Call that finds the
\* call stack holding call_stack_capacity frames: the Call fetched as opcode
\* number 2 + 3 * call_stack_capacity.
RecursionLimit ==
    BotsbuildbotsRan
        => /\ Raised("too much recursion")
           /\ Len(vm.call_stack) = call_stack_capacity
           /\ hist.executed = 2 + 3 * call_stack_capacity

\* C8 witness: such a run has ended with the exception.
RecursionRaised == BotsbuildbotsRan /\ Raised("too much recursion")

\* C9: memory stays within 0..memory_limit; a `List n` that fits charges
\* n * size_of(Value) and then creates its ref (or raises for a full arena), and
\* one that does not fit raises "out of heap memory" with the refs and the memory
\* counter as they were.
ListChargesMemory ==
    [][/\ vm'.memory >= 0 /\ vm'.memory <= memory_limit
       /\ (AtOpcode("List") /\ cur.pc + 2 < Len(chunks[cur.chunk_id + 1])
           /\ Operand(1) + 256 * Operand(2) <= Len(vm.stack))
           => IF vm.memory >= (Operand(1) + 256 * Operand(2)) * SizeOfValue
              THEN /\ vm'.memory = vm.memory - (Operand(1) + 256 * Operand(2)) * SizeOfValue
                   /\ \/ Len(vm'.refs) = Len(vm.refs) + 1
                      \/ (Len(vm.refs) = ref_capacity /\ vm'.refs = vm.refs
                          /\ result'.message = "too many value allocations")
              ELSE /\ result'.kind = "exception"
                   /\ result'.message = "out of heap memory"
                   /\ vm'.refs = vm.refs
                   /\ vm'.memory = vm.memory]_vars

\* C9 witness: a List that did not fit raised, with a free slot in the ref arena.
ListOutOfMemory ==
    /\ RunEnded
    /\ Raised("out of heap memory")
    /\ Len(vm.refs) < ref_capacity
    /\ vm.memory < 2 * SizeOfValue

\* C10: a run of a chunk of arbitrary bytes ends in a value or an exception,
\* never in a panic.
CorruptedBytecodeNeverPanics ==
    hist.op = "run" => result.kind # "panic"

(***************************************************************************)
(* The lexer (crates/haku/src/lexer.rs, token.rs).  A source is a sequence *)
(* of chars, each named by a string; position counts bytes, as in the      *)
(* code.                                                                   *)
(***************************************************************************)
max_tokens == 2
MaxSourceLen == 3

\* The chars sources are made of here: `-`, line feed, space, a letter, `(`,
\* a char of two bytes in UTF-8, a digit and the decimal point.
SourceChars == {"-", "LF", " ", "a", "(", "U+00E9", "1", "."}

\* The capacity of the Vec::new() of Lexer::new, which has not allocated
LexerDiagnosticsCapacity == 0

\* char::len_utf8; the NUL that current() substitutes at the end has one byte
len_utf8(c) == IF c = "U+00E9" THEN 2 ELSE 1

\* The outcome of slicing a str out of its bounds or inside a char: a panic.
OutOfBounds == "out of bounds"

\* self.input[position..].chars().next().unwrap_or('\0')
RECURSIVE CharAt(_, _)
CharAt(input, position) ==
    IF position = 0 THEN (IF input = <<>> THEN "NUL" ELSE Head(input))
    ELSE IF input = <<>> \/ position < len_utf8(Head(input)) THEN OutOfBounds
    ELSE CharAt(Tail(input), position - len_utf8(Head(input)))

\* The chars of input[start..end]
RECURSIVE Slice(_, _, _)
Slice(input, start, end) ==
    IF start >= end \/ CharAt(input, start) \in {OutOfBounds, "NUL"} THEN <<>>
    ELSE <<CharAt(input, start)>> \o Slice(input, start + len_utf8(CharAt(input, start)), end)

LexerNew(input) ==
    [input |-> input, position |-> 0, kinds |-> <<>>, diagnostics |-> <<>>,
     capacity |-> LexerDiagnosticsCapacity, panicked |-> FALSE]

current(l) == CharAt(l.input, l.position)

lexer_panic(l) == [l EXCEPT !.panicked = TRUE]

lexer_advance(l) ==
    IF l.panicked THEN l
    ELSE IF current(l) = OutOfBounds THEN lexer_panic(l)
    ELSE [l EXCEPT !.position = @ + len_utf8(current(l))]

\* Lexer::emit: the diagnostic is pushed while len() < capacity()
lexer_emit(l, message) ==
    IF l.panicked THEN l
    ELSE IF Len(l.diagnostics) < l.capacity
    THEN [l EXCEPT !.diagnostics = Append(@, message)]
    ELSE l

AsciiDigits == {"0", "1", "2", "3", "4", "5", "6", "7", "8", "9"}
AsciiUppercase == {"A", "B", "C", "D", "E", "F", "R", "Z"}
AsciiLowercase == {"a", "b", "c", "d", "e", "f", "i", "l", "n", "o", "r", "s", "t", "x"}
AsciiHexdigits == AsciiDigits \cup {"A", "B", "C", "D", "E", "F", "a", "b", "c", "d", "e", "f"}

\* matches!(c, 'a'..='z' | 'A'..='Z' | '0'..='9' | '_')
IdentChars == AsciiLowercase \cup AsciiUppercase \cup AsciiDigits \cup {"_"}

is_ident_char(c) == c \in IdentChars

\* while <the current char is in the class> { l.advance() }
RECURSIVE advance_while(_, _)
advance_while(l, class) ==
    IF l.panicked THEN l
    ELSE IF current(l) = OutOfBounds THEN lexer_panic(l)
    ELSE IF current(l) \in class THEN advance_while(lexer_advance(l), class)
    ELSE l

\* while l.current() != '\n' { l.advance() }
RECURSIVE advance_to_newline(_)
advance_to_newline(l) ==
    IF l.panicked THEN l
    ELSE IF current(l) = OutOfBounds THEN lexer_panic(l)
    ELSE IF current(l) # "LF" THEN advance_to_newline(lexer_advance(l))
    ELSE l

lexer_one(l, kind) == [l |-> lexer_advance(l), kind |-> kind]

one_or_two(l, kind1, c2, kind2) ==
    LET a == lexer_advance(l)
    IN  IF current(a) = c2 THEN [l |-> lexer_advance(a), kind |-> kind2]
        ELSE [l |-> a, kind |-> kind1]

ident(l) ==
    LET e == advance_while(l, IdentChars)
        text == Slice(l.input, l.position, e.position)
    IN  [l |-> e,
         kind |-> CASE text = <<"_">> -> "Underscore"
                    [] text = <<"a", "n", "d">> -> "And"
                    [] text = <<"o", "r">> -> "Or"
                    [] text = <<"i", "f">> -> "If"
                    [] text = <<"e", "l", "s", "e">> -> "Else"
                    [] text = <<"l", "e", "t">> -> "Let"
                    [] OTHER -> "Ident"]

tag(l) ==
    [l |-> advance_while(l, IdentChars), kind |-> "Tag"]

number(l) ==
    LET a == advance_while(l, AsciiDigits)
        dot == lexer_advance(a)
        d == IF current(dot) \in AsciiDigits THEN dot
             ELSE lexer_emit(dot, "there must be at least a single digit after the decimal point")
    IN  [l |-> IF current(a) = "." THEN advance_while(d, AsciiDigits) ELSE a,
         kind |-> "Number"]

color(l) ==
    LET hash == lexer_advance(l)
        h == IF current(hash) \in AsciiHexdigits THEN hash
             ELSE lexer_emit(hash, "hex digits expected after # (color literal)")
        e == advance_while(h, AsciiHexdigits)
    IN  [l |-> IF e.position - h.position \in {3, 4, 6, 8} THEN e
               ELSE lexer_emit(e, "incorrect number of digits in color literal"),
         kind |-> "Color"]

RECURSIVE whitespace_and_comments(_)
whitespace_and_comments(l) ==
    IF l.panicked THEN l
    ELSE CASE current(l) = OutOfBounds -> lexer_panic(l)
           [] current(l) = "-" ->
                IF current(lexer_advance(l)) = "-"
                THEN whitespace_and_comments(advance_to_newline(lexer_advance(l)))
                ELSE l
           [] current(l) \in {" ", "CR", "TAB"} -> whitespace_and_comments(lexer_advance(l))
           [] OTHER -> l

\* The loop of newline: skip the blank and comment lines that follow.
RECURSIVE skip_newlines(_)
skip_newlines(l) ==
    LET w == whitespace_and_comments(l)
    IN  IF w.panicked THEN w
        ELSE IF current(w) = "LF" THEN skip_newlines(lexer_advance(w))
        ELSE w

newline(l) == [l |-> skip_newlines(lexer_advance(l)), kind |-> "Newline"]

\* token: the lexer after the token and the token's kind
token(l) ==
    LET w == whitespace_and_comments(l)
        c == current(w)
    IN  IF w.panicked THEN [l |-> w, kind |-> "Error"]
        ELSE CASE c = "NUL" -> [l |-> w, kind |-> "Eof"]
               [] c \in AsciiUppercase -> tag(w)
               [] c \in AsciiDigits -> number(w)
               [] c \notin AsciiUppercase \cup AsciiDigits /\ is_ident_char(c) -> ident(w)
               [] c = "#" -> color(w)
               [] c = "+" -> lexer_one(w, "Plus")
               [] c = "-" -> one_or_two(w, "Minus", ">", "RArrow")
               [] c = "*" -> lexer_one(w, "Star")
               [] c = "/" -> lexer_one(w, "Slash")
               [] c = "=" -> one_or_two(w, "Equal", "=", "EqualEqual")
               [] c = "!" -> one_or_two(w, "Not", "=", "NotEqual")
               [] c = "<" -> one_or_two(w, "Less", "=", "LessEqual")
               [] c = ">" -> one_or_two(w, "Greater", "=", "GreaterEqual")
               [] c = "LF" -> newline(w)
               [] c = "(" -> lexer_one(w, "LParen")
               [] c = ")" -> lexer_one(w, "RParen")
               [] c = "[" -> lexer_one(w, "LBrack")
               [] c = "]" -> lexer_one(w, "RBrack")
               [] c = "," -> lexer_one(w, "Comma")
               [] c = "\\" -> lexer_one(w, "Backslash")
               [] OTHER -> [l |-> lexer_emit(lexer_advance(w), "unexpected character"),
                            kind |-> "Error"]

\* Lexis::push
lexis_push(l, kind) ==
    IF Len(l.kinds) >= max_tokens THEN [l |-> l, err |-> TRUE]
    ELSE [l |-> [l EXCEPT !.kinds = Append(@, kind)], err |-> FALSE]

RECURSIVE SeqsUpTo(_, _)
SeqsUpTo(S, n) ==
    IF n = 0 THEN {<<>>}
    ELSE SeqsUpTo(S, n - 1) \cup {Append(q, x) : q \in SeqsUpTo(S, n - 1), x \in S}

\* What the Vm's variables hold while only the front end works.
VmUntouched ==
    /\ chunks = <<>>
    /\ defs = <<>>
    /\ brush = NoBrush
    /\ brush_ok = FALSE
    /\ vm = VmNew(0)
    /\ cur = Idle
    /\ result = NoResult
    /\ image = VmImage(VmNew(0))
    /\ hist = HistInit

\* Lexer::new(Lexis::new(max_tokens), code), for every source up to MaxSourceLen
InitLex ==
    /\ VmUntouched
    /\ \E input \in SeqsUpTo(SourceChars, MaxSourceLen) :
        front = [stage |-> "lex", status |-> "running", lexer |-> LexerNew(input)]

\* One iteration of the loop of lex: token, then Lexis::push.
LexToken ==
    /\ front.stage = "lex" /\ front.status = "running"
    /\ LET t == token(front.lexer)
           pushed == lexis_push(t.l, t.kind)
       IN  front' = [front EXCEPT
                        !.lexer = IF t.l.panicked THEN t.l ELSE pushed.l,
                        !.status = IF t.l.panicked THEN "panic"
                                   ELSE IF pushed.err THEN "TooManyTokens"
                                   ELSE IF t.kind = "Eof" THEN "ok"
                                   ELSE "running"]
    /\ UNCHANGED <<chunks, vm, cur, result, image, brush, brush_ok, defs, hist>>

NextLex == LexToken

SpecLex == InitLex /\ [][NextLex]_vars

\* C11: lex ends in Ok with a token sequence that ends in Eof or in the
\* TooManyTokens error, never in a panic, and the Lexis never holds more than
\* max_tokens tokens.
LexNeverPanics ==
    front.stage = "lex"
        => /\ front.status # "panic"
           /\ Len(front.lexer.kinds) <= max_tokens
           /\ front.status = "ok"
                => (front.lexer.kinds # <<>>
                    /\ front.lexer.kinds[Len(front.lexer.kinds)] = "Eof")

\* The source starts with a number literal whose decimal point no digit
\* follows, such as 1. and 11. and 1.a
DotWithoutDigits(input) ==
    \E n \in 1..(Len(input) - 1) :
        /\ \A i \in 1..n : input[i] \in AsciiDigits
        /\ input[n + 1] = "."
        /\ (n + 2 <= Len(input) => input[n + 2] \notin AsciiDigits)

\* The first token of such a source has been lexed.
DotWithoutDigitsLexed ==
    /\ front.stage = "lex"
    /\ front.lexer.kinds # <<>>
    /\ DotWithoutDigits(front.lexer.input)

\* C24: a number literal whose decimal point no digit follows still gives a
\* Number token, and leaves the diagnostic "there must be at least a single
\* digit after the decimal point" in the diagnostics of the lexer, so that the
\* diagnostics of the brush are not empty.
NumberDotDiagnosed ==
    DotWithoutDigitsLexed
        => /\ front.lexer.kinds[1] = "Number"
           /\ "there must be at least a single digit after the decimal point"
                \in Range(front.lexer.diagnostics)

(***************************************************************************)
(* The parser (crates/haku/src/parser.rs).  A Parser p is a record: the    *)
(* token kinds, the events, position, fuel and diagnostics of the code,    *)
(* plus what the call just made returned: peeked (the TokenKind of peek),  *)
(* index (the Option<usize> of event, open and open_before, None = -1) and *)
(* closed (the index of a Closed), and kind (the NodeKind of infix).       *)
(***************************************************************************)
max_parser_events == 3
ast_capacity == 4
MaxNesting == 18
MaxTokens == 3
\* The arguments of a call beside an operator
MaxArgs == 1

\* Parser::FUEL
FUEL == 256

\* The limits of haku-wasm's Limits::default
DefaultMaxParserEvents == 1024
DefaultAstCapacity == 1024

\* Vec::with_capacity(16) of Parser::new
DiagnosticsCapacity == 16

None == 0 - 1

OpenEvent(kind) == [e |-> "Open", kind |-> kind]
CloseEvent == [e |-> "Close", kind |-> ""]
AdvanceEvent == [e |-> "Advance", kind |-> ""]

ParserNew(tokens, max_events) ==
    [tokens |-> tokens, events |-> <<>>, position |-> 0, fuel |-> FUEL,
     diagnostics |-> <<>>, panicked |-> FALSE, max_events |-> max_events,
     peeked |-> "", index |-> None, closed |-> None, kind |-> ""]

parser_panic(p) == [p EXCEPT !.panicked = TRUE]

event(p, ev) ==
    IF p.panicked THEN p
    ELSE IF Len(p.events) < p.max_events
    THEN [p EXCEPT !.events = Append(@, ev), !.index = Len(p.events)]
    ELSE [p EXCEPT !.index = None]

open(p) == event(p, OpenEvent("Error"))

\* Vec::insert(index, ..)
InsertAt(events, index, ev) ==
    SubSeq(events, 1, index) \o <<ev>> \o SubSeq(events, index + 1, Len(events))

open_before(p, closed) ==
    IF p.panicked THEN p
    ELSE IF closed # None /\ Len(p.events) < p.max_events
    THEN [p EXCEPT !.events = InsertAt(@, closed, OpenEvent("Error")), !.index = closed]
    ELSE [p EXCEPT !.index = None]

close(p, opened, kind) ==
    IF p.panicked THEN p
    ELSE IF opened # None
    THEN [event([p EXCEPT !.events[opened + 1] = OpenEvent(kind)], CloseEvent)
            EXCEPT !.closed = opened]
    ELSE [p EXCEPT !.closed = None]

\* peek: assert_ne!(fuel, 0, "parser is stuck"), then one unit of fuel less
peek(p) ==
    IF p.panicked THEN p
    ELSE IF p.fuel = 0 \/ p.position >= Len(p.tokens) THEN parser_panic(p)
    ELSE [p EXCEPT !.fuel = @ - 1, !.peeked = p.tokens[p.position + 1]]

\* advance, whose is_eof is a peek
parser_advance(p) ==
    LET k == peek(p)
    IN  IF k.panicked \/ k.peeked = "Eof" THEN k
        ELSE [event(k, AdvanceEvent) EXCEPT !.position = @ + 1, !.fuel = FUEL]

parser_emit(p, message) ==
    IF p.panicked \/ Len(p.diagnostics) >= DiagnosticsCapacity THEN p
    ELSE [p EXCEPT !.diagnostics = Append(@, message)]

advance_with_error(p) ==
    LET o == open(p)
    IN  close(parser_advance(o), o.index, "Error")

optional_newline(p) ==
    LET k == peek(p)
    IN  IF ~k.panicked /\ k.peeked = "Newline" THEN parser_advance(k) ELSE k

PREFIX_TOKENS ==
    {"Ident", "Tag", "Number", "Color", "Minus", "Not", "LParen", "Backslash", "If",
     "Let", "LBrack"}

BinaryOperators ==
    {"Plus", "Minus", "Star", "Slash", "EqualEqual", "NotEqual", "Less", "LessEqual",
     "Greater", "GreaterEqual", "Equal"}

\* tightness of tighter; None for a token that is no operator
tightness(kind) ==
    CASE kind = "Equal" -> 0
      [] kind \in {"EqualEqual", "NotEqual", "Less", "LessEqual", "Greater",
                   "GreaterEqual"} -> 1
      [] kind \in {"Plus", "Minus"} -> 2
      [] kind \in {"Star", "Slash"} -> 3
      [] kind \notin BinaryOperators /\ kind \in PREFIX_TOKENS -> 4
      [] OTHER -> None

\* tighter: "Left", "Right", or a failed assertion
tighter(left, right) ==
    IF tightness(right) = None THEN "Left"
    ELSE IF tightness(left) = None THEN (IF left = "Eof" THEN "Right" ELSE "panic")
    ELSE IF tightness(right) > tightness(left) THEN "Right"
    ELSE "Left"

parser_one(p, kind) ==
    LET o == open(p)
    IN  close(parser_advance(o), o.index, kind)

(***************************************************************************)
(* The functions of the grammar call each other recursively.  Each runs    *)
(* here in segments, from one call of an expression function to the next:  *)
(* a Frame is a call in progress, with the place it resumes at (at) and    *)
(* its locals (o: the index of its Open, left: the operator to its left).  *)
(* A segment yields the parser and the frames that replace the frame that  *)
(* ran: none when the function returns, the frame itself when it goes on,  *)
(* the frame and a callee when it calls.                                   *)
(***************************************************************************)
Frame(fn, at, o, left) == [fn |-> fn, at |-> at, o |-> o, left |-> left]

Return(p) == [p |-> p, frames |-> <<>>]
GoOn(p, f) == [p |-> p, frames |-> <<f>>]
Call(p, f, callee) == [p |-> p, frames |-> <<f, callee>>]

\* expr(p): precedence_parse(p, TokenKind::Eof)
expr == Frame("precedence_parse", "start", None, "Eof")

\* precedence_parse: prefix, then the loop; p.closed is lhs when the loop runs
precedence_parse(p, f) ==
    IF f.at = "start" THEN Call(p, [f EXCEPT !.at = "loop"], Frame("prefix", "start", None, ""))
    ELSE IF f.at = "loop"
    THEN LET k == peek(p)
             o == open_before(k, p.closed)
         IN  IF k.panicked THEN Return(k)
             ELSE CASE tighter(f.left, k.peeked) = "Left" -> Return(k)
                    [] tighter(f.left, k.peeked) = "Right" ->
                         Call(o, [f EXCEPT !.at = "infix", !.o = o.index],
                              Frame("infix", "start", None, k.peeked))
                    [] OTHER -> Return(parser_panic(k))
    ELSE GoOn(close(p, f.o, p.kind), [f EXCEPT !.at = "loop"])

\* infix, with infix_binary and infix_call; f.left is the operator.  The
\* NodeKind it returns is left in p.kind.
infix(p, f) ==
    IF f.at = "start"
    THEN IF f.left \in BinaryOperators
         THEN LET o == open(p)
              IN  Call(optional_newline(close(parser_advance(o), o.index, "Op")),
                       [f EXCEPT !.at = "binary"],
                       Frame("precedence_parse", "start", None, f.left))
         ELSE IF f.left \in PREFIX_TOKENS THEN GoOn(p, [f EXCEPT !.at = "call"])
         ELSE Return(parser_panic(p))
    ELSE IF f.at = "binary" THEN Return([p EXCEPT !.kind = "Binary"])
    ELSE LET k == peek(p)
         IN  IF k.panicked THEN Return(k)
             ELSE IF k.peeked \in PREFIX_TOKENS
             THEN Call(k, f, Frame("prefix", "start", None, ""))
             ELSE Return([k EXCEPT !.kind = "Call"])

list(p, f) ==
    IF f.at = "start"
    THEN LET o == open(p)
         IN  GoOn(optional_newline(parser_advance(o)), [f EXCEPT !.at = "loop", !.o = o.index])
    ELSE IF f.at = "loop"
    THEN LET k == peek(p)
         IN  IF k.panicked THEN Return(k)
             ELSE IF k.peeked = "Eof"
             THEN Return(close(parser_emit(k, "missing ] to close this list"), f.o, "List"))
             ELSE IF k.peeked = "RBrack" THEN Return(close(parser_advance(k), f.o, "List"))
             ELSE Call(k, [f EXCEPT !.at = "element"], expr)
    ELSE LET k == peek(p)
         IN  IF k.panicked THEN Return(k)
             ELSE IF k.peeked \in {"Comma", "Newline"}
             THEN GoOn(parser_advance(k), [f EXCEPT !.at = "loop"])
             ELSE IF k.peeked = "RBrack" THEN Return(close(parser_advance(k), f.o, "List"))
             ELSE GoOn(advance_with_error(parser_emit(k,
                            "comma , or new line expected after list element")),
                       [f EXCEPT !.at = "loop"])

unary(p, f) ==
    IF f.at = "start"
    THEN LET o == open(p)
             op == open(o)
         IN  Call(close(parser_advance(op), op.index, "Op"),
                  [f EXCEPT !.at = "end", !.o = o.index], Frame("prefix", "start", None, ""))
    ELSE Return(close(p, f.o, "Unary"))

paren(p, f) ==
    IF f.at = "start"
    THEN LET o == open(p)
             k == peek(parser_advance(o))
         IN  IF k.panicked THEN Return(k)
             ELSE IF k.peeked = "RParen"
             THEN Return(close(parser_advance(k), o.index, "ParenEmpty"))
             ELSE Call(optional_newline(k), [f EXCEPT !.at = "end", !.o = o.index], expr)
    ELSE LET k == peek(optional_newline(p))
         IN  IF k.panicked THEN Return(k)
             ELSE IF k.peeked # "RParen"
             THEN Return(close(advance_with_error(
                            parser_emit(k, "missing closing parenthesis )")), f.o, "Paren"))
             ELSE Return(close(parser_advance(k), f.o, "Paren"))

param(p) ==
    LET o == open(p)
        k == peek(o)
    IN  IF k.panicked THEN k
        ELSE IF k.peeked \in {"Ident", "Underscore"}
        THEN close(parser_advance(k), o.index, "Param")
        ELSE close(advance_with_error(
                parser_emit(k, "parameter names must be identifiers or _")),
                o.index, "Param")

\* The loop of lambda over the parameters.
RECURSIVE params_loop(_)
params_loop(p) ==
    LET k == peek(param(p))
    IN  IF k.panicked THEN k
        ELSE IF k.peeked = "Comma" THEN params_loop(parser_advance(k))
        ELSE IF k.peeked = "RArrow" THEN k
        ELSE advance_with_error(
                parser_emit(k, ", or -> expected after function parameter"))

lambda(p, f) ==
    IF f.at = "start"
    THEN LET o == open(p)
             params == open(parser_advance(o))
             k == peek(close(params_loop(params), params.index, "Params"))
         IN  IF k.panicked THEN Return(k)
             ELSE IF k.peeked = "RArrow"
             THEN Call(optional_newline(parser_advance(k)),
                       [f EXCEPT !.at = "end", !.o = o.index], expr)
             ELSE Return(close(k, o.index, "Lambda"))
    ELSE Return(close(p, f.o, "Lambda"))

\* peek, and the diagnostic if the token is not the expected one
expect(p, kind, message) ==
    LET k == peek(p)
    IN  IF k.panicked \/ k.peeked = kind THEN k ELSE parser_emit(k, message)

if_expr(p, f) ==
    IF f.at = "start"
    THEN LET o == open(p)
         IN  Call(parser_advance(expect(parser_advance(o), "LParen",
                    "the condition in an if expression must be surrounded with parentheses")),
                  [f EXCEPT !.at = "condition", !.o = o.index], expr)
    ELSE IF f.at = "condition"
    THEN Call(optional_newline(parser_advance(expect(p, "RParen",
                    "missing closing parenthesis after if condition"))),
              [f EXCEPT !.at = "true"], expr)
    ELSE IF f.at = "true"
    THEN Call(optional_newline(parser_advance(expect(optional_newline(p), "Else",
                    "if expression is missing an else clause"))),
              [f EXCEPT !.at = "false"], expr)
    ELSE Return(close(p, f.o, "If"))

\* peek; advance over the expected token, advance_with_error over another
expect_and_advance(p, kind, message) ==
    LET k == peek(p)
    IN  IF k.panicked THEN k
        ELSE IF k.peeked = kind THEN parser_advance(k)
        ELSE advance_with_error(parser_emit(k, message))

let_expr(p, f) ==
    IF f.at = "start"
    THEN LET o == open(p)
             k == peek(parser_advance(o))
             ident_open == open(k)
             name == IF k.panicked THEN k
                     ELSE IF k.peeked = "Ident"
                     THEN close(parser_advance(ident_open), ident_open.index, "Ident")
                     ELSE advance_with_error(parser_emit(k, "let variable name expected"))
         IN  Call(expect_and_advance(name, "Equal", "= expected after variable name"),
                  [f EXCEPT !.at = "value", !.o = o.index], expr)
    ELSE IF f.at = "value"
    THEN Call(expect_and_advance(p, "Newline", "new line expected after let expression"),
              [f EXCEPT !.at = "body"], expr)
    ELSE Return(close(p, f.o, "Let"))

\* prefix: a token node, or the function of the construct the token starts,
\* which takes the place of prefix's frame
prefix(p, f) ==
    LET k == peek(p)
    IN  IF k.panicked THEN Return(k)
        ELSE CASE k.peeked = "Ident" -> Return(parser_one(k, "Ident"))
               [] k.peeked = "Tag" -> Return(parser_one(k, "Tag"))
               [] k.peeked = "Number" -> Return(parser_one(k, "Number"))
               [] k.peeked = "Color" -> Return(parser_one(k, "Color"))
               [] k.peeked = "LBrack" -> GoOn(k, Frame("list", "start", None, ""))
               [] k.peeked \in {"Minus", "Not"} -> GoOn(k, Frame("unary", "start", None, ""))
               [] k.peeked = "LParen" -> GoOn(k, Frame("paren", "start", None, ""))
               [] k.peeked = "Backslash" -> GoOn(k, Frame("lambda", "start", None, ""))
               [] k.peeked = "If" -> GoOn(k, Frame("if_expr", "start", None, ""))
               [] k.peeked = "Let" -> GoOn(k, Frame("let_expr", "start", None, ""))
               [] OTHER -> Return(advance_with_error(parser_emit(peek(k),
                    "an expression was expected, but this token does not start one")))

toplevel(p, f) ==
    IF f.at = "start"
    THEN LET o == open(p)
         IN  GoOn(optional_newline(o), [f EXCEPT !.at = "loop", !.o = o.index])
    ELSE IF f.at = "loop"
    THEN LET k == peek(p)
         IN  IF k.panicked THEN Return(k)
             ELSE IF k.peeked = "Eof" THEN Return(close(k, f.o, "Toplevel"))
             ELSE Call(k, [f EXCEPT !.at = "expression"], expr)
    ELSE LET k == peek(p)
         IN  IF k.panicked THEN Return(k)
             ELSE IF k.peeked = "Newline" THEN GoOn(parser_advance(k), [f EXCEPT !.at = "loop"])
             ELSE IF k.peeked = "Eof" THEN Return(close(k, f.o, "Toplevel"))
             ELSE GoOn(parser_emit(k, "newline expected after toplevel expression"),
                       [f EXCEPT !.at = "loop"])

\* The segment the frame on top of the stack runs next.
segment(p, f) ==
    CASE f.fn = "toplevel" -> toplevel(p, f)
      [] f.fn = "precedence_parse" -> precedence_parse(p, f)
      [] f.fn = "prefix" -> prefix(p, f)
      [] f.fn = "infix" -> infix(p, f)
      [] f.fn = "list" -> list(p, f)
      [] f.fn = "unary" -> unary(p, f)
      [] f.fn = "paren" -> paren(p, f)
      [] f.fn = "lambda" -> lambda(p, f)
      [] f.fn = "if_expr" -> if_expr(p, f)
      [] f.fn = "let_expr" -> let_expr(p, f)

\* Parser::into_ast up to its loop: the last Close is popped, and the loop
\* starts with an empty stack, token 0 and the nodes Ast::new allocated (nil).
\* The stack is modelled by its length, the Ast by its number of nodes.
into_ast(p) ==
    IF p.events = <<>> \/ p.events[Len(p.events)].e # "Close"
    THEN [status |-> "panic", events |-> <<>>, stack |-> 0, nodes |-> 1, token |-> 0]
    ELSE [status |-> "into_ast", events |-> SubSeq(p.events, 1, Len(p.events) - 1),
          stack |-> 0, nodes |-> 1, token |-> 0]

\* One turn of the loop of into_ast over the events, or its end once no event
\* is left: status is "ok", the IntoAstError, or "panic".
into_ast_loop(a, tokens, capacity) ==
    IF a.events = <<>>
    THEN [a EXCEPT !.status = IF a.stack # 1 THEN "UnbalancedEvents" ELSE "ok"]
    ELSE LET ev == Head(a.events)
             rest == [a EXCEPT !.events = Tail(a.events)]
         IN  CASE ev.e = "Open" ->
                    IF a.token >= Len(tokens) THEN [a EXCEPT !.status = "panic"]
                    ELSE IF a.nodes >= capacity THEN [a EXCEPT !.status = "NodeAlloc"]
                    ELSE [rest EXCEPT !.stack = a.stack + 1, !.nodes = a.nodes + 1]
               [] ev.e = "Close" ->
                    IF a.stack < 2 THEN [a EXCEPT !.status = "panic"]
                    ELSE [rest EXCEPT !.stack = a.stack - 1]
               [] ev.e = "Advance" ->
                    IF a.token >= Len(tokens) THEN [a EXCEPT !.status = "panic"]
                    ELSE IF a.nodes >= capacity THEN [a EXCEPT !.status = "NodeAlloc"]
                    ELSE IF a.stack = 0 THEN [a EXCEPT !.status = "panic"]
                    ELSE [rest EXCEPT !.nodes = a.nodes + 1, !.token = a.token + 1]

\* The token kinds the short inputs are made of.
TokenAlphabet == {"Ident", "LParen", "RParen", "Plus", "Newline", "Let"}

\* What each level of a nest of unclosed constructs starts with.
NestUnits ==
    {<<"LParen">>, <<"LBrack">>, <<"If", "LParen">>, <<"Let", "Ident", "Equal">>}

RECURSIVE Nest(_, _)
Nest(unit, n) == IF n = 0 THEN <<>> ELSE unit \o Nest(unit, n - 1)

\* The lexer never pushes two Newline tokens in a row (newline skips the rest).
Lexable(kinds) == \A i \in 1..(Len(kinds) - 1) : ~(kinds[i] = "Newline" /\ kinds[i + 1] = "Newline")

\* a op1 b op2 c
TwoOperators(op1, op2) == <<"Ident", op1, "Ident", op2, "Ident", "Eof">>

\* A callee and number arguments, an operator, and a callee and number arguments:
\* f 1 - g 2 has one argument on each side
CallOperatorCall(left_args, op, right_args) ==
    <<"Ident">> \o [i \in 1..left_args |-> "Number"] \o <<op, "Ident">>
        \o [i \in 1..right_args |-> "Number"] \o <<"Eof">>

\* f -1, with the arguments before the operator
CallMinusNumber(args) ==
    <<"Ident">> \o [i \in 1..args |-> "Ident"] \o <<"Minus", "Number", "Eof">>

OperatorInputs ==
    {TwoOperators(op1, op2) : op1 \in BinaryOperators, op2 \in BinaryOperators}
    \cup {CallOperatorCall(l, op, r) : l \in 0..MaxArgs, op \in BinaryOperators, r \in 0..MaxArgs}
    \cup {CallMinusNumber(args) : args \in 0..MaxArgs}

ParseInputs ==
    {Append(q, "Eof") : q \in {k \in SeqsUpTo(TokenAlphabet, MaxTokens) : Lexable(k)}}
    \cup {Append(Nest(unit, n), "Eof") : unit \in NestUnits, n \in 1..MaxNesting}
    \cup OperatorInputs

\* Parser::new(&lexer.lexis, &ParserLimits { max_events }) and Ast::new(ast_capacity),
\* with small limits and with the default ones
InitParse ==
    /\ VmUntouched
    /\ \E tokens \in ParseInputs :
       \E limits \in {[max_events |-> max_parser_events, ast |-> ast_capacity],
                      [max_events |-> DefaultMaxParserEvents, ast |-> DefaultAstCapacity]} :
            front = [stage |-> "parse", status |-> "parsing",
                     parser |-> ParserNew(tokens, limits.max_events),
                     frames |-> <<Frame("toplevel", "start", None, "")>>,
                     ast |-> [status |-> "new", events |-> <<>>, stack |-> 0, nodes |-> 1,
                              token |-> 0],
                     ast_capacity |-> limits.ast]

\* parser::toplevel(&mut parser), a segment at a time
Parse ==
    /\ front.stage = "parse" /\ front.status = "parsing"
    /\ \E r \in {segment(front.parser, front.frames[Len(front.frames)])} :
        LET frames == SubSeq(front.frames, 1, Len(front.frames) - 1) \o r.frames
        IN  front' = [front EXCEPT
                        !.parser = r.p,
                        !.frames = frames,
                        !.status = IF r.p.panicked THEN "stuck"
                                   ELSE IF frames = <<>> THEN "parsed"
                                   ELSE "parsing"]
    /\ UNCHANGED <<chunks, vm, cur, result, image, brush, brush_ok, defs, hist>>

\* parser.into_ast(&mut ast): the assertion on the last event
IntoAst ==
    /\ front.stage = "parse" /\ front.status = "parsed"
    /\ \E a \in {into_ast(front.parser)} :
        front' = [front EXCEPT !.status = a.status, !.ast = a]
    /\ UNCHANGED <<chunks, vm, cur, result, image, brush, brush_ok, defs, hist>>

\* parser.into_ast(&mut ast): an event of the loop, or the end of the function
IntoAstEvent ==
    /\ front.stage = "parse" /\ front.status = "into_ast"
    /\ \E a \in {into_ast_loop(front.ast, front.parser.tokens, front.ast_capacity)} :
        front' = [front EXCEPT !.status = a.status, !.ast = a]
    /\ UNCHANGED <<chunks, vm, cur, result, image, brush, brush_ok, defs, hist>>

NextParse == Parse \/ IntoAst \/ IntoAstEvent

SpecParse == InitParse /\ [][NextParse]_vars

\* C12: toplevel returns for every token sequence, without a failed assertion:
\* the 256 peeks of fuel are never used up between two advances.
ParserNeverStuck ==
    front.stage = "parse" => (front.status # "stuck" /\ ~front.parser.panicked)

\* C13: the events never outnumber max_events, and into_ast ends in Ok or in a
\* typed IntoAstError, not in a panic.
IntoAstTypedError ==
    front.stage = "parse"
        => /\ Len(front.parser.events) <= front.parser.max_events
           /\ front.status # "panic"

(***************************************************************************)
(* The trees of the parser.  into_ast turns each Open into a node, each    *)
(* Advance into a Token child and each Close into the end of the node, so  *)
(* the events of a parser are its tree in preorder; a tree is written here *)
(* as these events.                                                        *)
(***************************************************************************)
Leaf(kind) == <<OpenEvent(kind), AdvanceEvent, CloseEvent>>

Tree(kind, children) == <<OpenEvent(kind)>> \o Flatten(children) \o <<CloseEvent>>

BinaryTree(left, right) == Tree("Binary", <<left, Leaf("Op"), right>>)

\* A callee with number arguments: the callee alone when it has none
CallTree(args, arg_kind) ==
    IF args = 0 THEN Leaf("Ident")
    ELSE Tree("Call", <<Leaf("Ident")>> \o [i \in 1..args |-> Leaf(arg_kind)])

\* toplevel returned with the default limits, having parsed tokens.
Parsed(tokens) ==
    /\ front.stage = "parse"
    /\ front.status = "parsed"
    /\ front.parser.max_events = DefaultMaxParserEvents
    /\ front.parser.tokens = tokens

\* C22: in a juxtaposition call a - is the binary minus: f -1 parses as
\* Binary(f, -, 1) and f x - 1 as Binary(Call(f, x), -, 1), with no
\* diagnostic.
JuxtapositionMinusIsBinary ==
    \A args \in 0..MaxArgs :
        Parsed(CallMinusNumber(args))
            => /\ front.parser.events
                    = Tree("Toplevel", <<BinaryTree(CallTree(args, "Ident"), Leaf("Number"))>>)
               /\ front.parser.diagnostics = <<>>

\* f -1 was parsed as Binary(f, -, 1).
MinusAfterCalleeParsed ==
    /\ Parsed(CallMinusNumber(0))
    /\ front.parser.events
            = Tree("Toplevel", <<BinaryTree(Leaf("Ident"), Leaf("Number"))>>)

\* C23: a op1 b op2 c parses as Binary(Binary(a op1 b) op2 c) unless op2 is
\* strictly tighter than op1, and then as Binary(a op1 Binary(b op2 c)); a
\* call on either side of a binary operator groups before the operator.
BinaryPrecedence ==
    /\ \A op1 \in BinaryOperators, op2 \in BinaryOperators :
            Parsed(TwoOperators(op1, op2))
                => front.parser.events
                    = Tree("Toplevel",
                        <<IF tightness(op2) > tightness(op1)
                          THEN BinaryTree(Leaf("Ident"), BinaryTree(Leaf("Ident"), Leaf("Ident")))
                          ELSE BinaryTree(BinaryTree(Leaf("Ident"), Leaf("Ident")), Leaf("Ident"))>>)
    /\ \A l \in 0..MaxArgs, r \in 0..MaxArgs, op \in BinaryOperators :
            Parsed(CallOperatorCall(l, op, r))
                => front.parser.events
                    = Tree("Toplevel",
                        <<BinaryTree(CallTree(l, "Number"), CallTree(r, "Number"))>>)

\* sin 1 + cos 2 was parsed.
CallPlusCallParsed ==
    /\ Parsed(CallOperatorCall(1, "Plus", 1))
    /\ front.parser.events
            = Tree("Toplevel", <<BinaryTree(CallTree(1, "Number"), CallTree(1, "Number"))>>)


(***************************************************************************)
(* Emitting bytecode into a Chunk (bytecode.rs) from the compiler          *)
(* (compiler.rs).  What is emitted does not matter to the capacity, so a   *)
(* chunk is its length and its capacity, and an expression is the sizes of *)
(* the emit_bytes calls its compilation makes.                             *)
(***************************************************************************)

\* The small chunk capacities, and the slices emit_bytes is given: 2^0 .. 2^MaxSliceLog
MaxSmallCapacity == 8
MaxSliceLog == 15

\* 1 << 16 of Chunk::new; Offset is a u16
ChunkCapacityLimit == 65536

\* Chunk::new(capacity); Vec::with_capacity gives the capacity asked for
ChunkNew(capacity) ==
    IF capacity <= ChunkCapacityLimit
    THEN [ok |-> TRUE, chunk |-> [len |-> 0, capacity |-> capacity]]
    ELSE [ok |-> FALSE, chunk |-> [len |-> 0, capacity |-> 0]]

\* Chunk::offset: self.bytecode.len() as u16
offset(chunk) == chunk.len % 65536

\* Chunk::emit_bytes with a slice of n bytes
emit_bytes(chunk, n) ==
    IF chunk.len + n > chunk.capacity
    THEN [ok |-> FALSE, chunk |-> chunk]
    ELSE [ok |-> TRUE, chunk |-> [chunk EXCEPT !.len = chunk.len + n]]

\* A run of emit_* calls chained with `?`: it ends at the first EmitError.
RECURSIVE emit_all(_, _)
emit_all(chunk, sizes) ==
    IF sizes = <<>> THEN [ok |-> TRUE, chunk |-> chunk]
    ELSE LET e == emit_bytes(chunk, Head(sizes))
         IN  IF e.ok THEN emit_all(e.chunk, Tail(sizes)) ELSE e

\* The emit calls of compile_nil (an opcode) and of compile_number (an opcode
\* and an f32).
Exprs == {<<1>>, <<1, 4>>}

\* compile_fn with no parameter and no capture, its body an expression of Exprs:
\* "ok", "Emit" (CompileError::Emit) or "panic"
compile_fn(chunk, body) ==
    LET e == emit_all(chunk, <<1, 1, 2>> \o body \o <<1>>)
        captures == emit_bytes(e.chunk, 1)
    IN  IF ~e.ok THEN [status |-> "Emit", chunk |-> e.chunk, wrapped |-> FALSE]
        ELSE IF e.chunk.len > 65535
        THEN [status |-> "panic", chunk |-> e.chunk, wrapped |-> FALSE]
        ELSE [status |-> IF captures.ok THEN "ok" ELSE "Emit", chunk |-> captures.chunk,
              wrapped |-> FALSE]

\* compile_if with its three arguments expressions of Exprs; wrapped tells that
\* a patched jump offset is not the length the chunk had
compile_if(chunk, condition, if_true, if_false) ==
    LET e == emit_all(chunk, condition \o <<1, 2>> \o if_true \o <<1, 2>>)
        false_jump_offset == offset(e.chunk)
        f == emit_all(e.chunk, if_false)
        true_jump_offset == offset(f.chunk)
    IN  IF ~e.ok THEN [status |-> "Emit", chunk |-> e.chunk, wrapped |-> FALSE]
        ELSE IF ~f.ok
        THEN [status |-> "Emit", chunk |-> f.chunk,
              wrapped |-> false_jump_offset # e.chunk.len]
        ELSE [status |-> "ok", chunk |-> f.chunk,
              wrapped |-> \/ false_jump_offset # e.chunk.len
                          \/ true_jump_offset # f.chunk.len]

\* limits.chunk_capacity: small ones, and those around the limit of Chunk::new
Capacities ==
    (0..MaxSmallCapacity)
    \cup {ChunkCapacityLimit - 1, ChunkCapacityLimit, ChunkCapacityLimit + 1}

InitEmit ==
    /\ VmUntouched
    /\ \E capacity \in Capacities :
        front = [stage |-> "emit", status |-> "new", capacity |-> capacity,
                 chunk |-> [len |-> 0, capacity |-> 0], wrapped |-> FALSE]

\* Chunk::new(limits.chunk_capacity)
NewChunk ==
    /\ front.stage = "emit" /\ front.status = "new"
    /\ \E c \in {ChunkNew(front.capacity)} :
        front' = [front EXCEPT !.status = IF c.ok THEN "ok" ELSE "ChunkSizeError",
                               !.chunk = c.chunk]
    /\ UNCHANGED <<chunks, vm, cur, result, image, brush, brush_ok, defs, hist>>

\* What a compile function did becomes the state of the compilation.
Compiled(c) ==
    front' = [front EXCEPT !.status = c.status, !.chunk = c.chunk,
                           !.wrapped = front.wrapped \/ c.wrapped]

\* c.chunk.emit_bytes(..)? on behalf of any other expression
EmitBytes ==
    /\ front.stage = "emit" /\ front.status = "ok"
    /\ \E k \in 0..MaxSliceLog :
       \E e \in {emit_bytes(front.chunk, Pow2(k))} :
            Compiled([status |-> IF e.ok THEN "ok" ELSE "Emit", chunk |-> e.chunk,
                      wrapped |-> FALSE])
    /\ UNCHANGED <<chunks, vm, cur, result, image, brush, brush_ok, defs, hist>>

\* compile_expr of (fn () body)
CompileFn ==
    /\ front.stage = "emit" /\ front.status = "ok"
    /\ \E body \in Exprs : Compiled(compile_fn(front.chunk, body))
    /\ UNCHANGED <<chunks, vm, cur, result, image, brush, brush_ok, defs, hist>>

\* compile_expr of (if condition if_true if_false)
CompileIf ==
    /\ front.stage = "emit" /\ front.status = "ok"
    /\ \E condition \in Exprs, if_true \in Exprs, if_false \in Exprs :
        Compiled(compile_if(front.chunk, condition, if_true, if_false))
    /\ UNCHANGED <<chunks, vm, cur, result, image, brush, brush_ok, defs, hist>>

NextEmit == NewChunk \/ EmitBytes \/ CompileFn \/ CompileIf

SpecEmit == InitEmit /\ [][NextEmit]_vars

\* C14: whatever the capacity, a compilation that runs out of room in the chunk
\* ends in CompileError::Emit: it does not panic, the chunk never grows beyond
\* its capacity, and no jump offset is patched with a wrapped length.
ChunkOverflowTyped ==
    front.stage = "emit"
        => /\ front.status # "panic"
           /\ front.chunk.len <= front.chunk.capacity
           /\ ~front.wrapped

(***************************************************************************)
(* Evaluations of one brush, one after another, by a host that keeps the   *)
(* image of the new Vm: each is apply_defs, create_ref and run, as in      *)
(* Haku::eval_brush, and the host may restore the image between two.       *)
(* front keeps what the evaluations showed: the value of the first one     *)
(* that began at the image (first), what the last SetDef of each def       *)
(* stored since the def was created (set), what the last Def read (read),  *)
(* and what the last Call met (call).                                      *)
(***************************************************************************)
\* The evaluations of one behaviour.
MaxRuns == 3

NoValue == [some |-> FALSE, value |-> Nil]

SomeValue(v) == [some |-> TRUE, value |-> v]

NoRead == [some |-> FALSE, id |-> 0, value |-> Nil, expected |-> Nil]

NoCall == [mismatch |-> FALSE, frames |-> 0]

\* The opcode run fetches next, "none" if it fetches none
NextOpcode(m) ==
    LET o == read_opcode(consume_fuel(m))
    IN  IF Failed(o) THEN "none" ELSE Opcode[o.opnd + 1]

\* Its u16 operand (Def, SetDef)
NextU16(m) == read_u16(read_opcode(consume_fuel(m))).opnd

\* Its u8 operand (Call)
NextU8(m) == read_u8(read_opcode(consume_fuel(m))).opnd

Top(stack) == stack[Len(stack)]

\* The closure `Call` is about to call with a wrong number of arguments
CallMismatch(m) ==
    /\ NextOpcode(m) = "Call"
    /\ m.stack # <<>>
    /\ Top(m.stack).t = "Ref"
    /\ Top(m.stack).n < Len(m.refs)
    /\ m.refs[Top(m.stack).n + 1].k = "Closure"
    /\ m.refs[Top(m.stack).n + 1].param_count # NextU8(m)

NoReturn ==
    [some |-> FALSE, below |-> <<>>, value |-> Nil, pc |-> 0, bottom |-> 0,
     chunk_id |-> 0, closure_id |-> 0]

\* The Call of the step from m to n pushed a frame
Called(m, n) == NextOpcode(m) = "Call" /\ ~Failed(n)

\* The Return of the step from m to n popped a frame and did not halt
Returned(m, n) == NextOpcode(m) = "Return" /\ ~Failed(n) /\ ~n.halted

\* calls after the step from m to n: a Call n that pushes its frame opens a
\* call with the stack below the function value and its n arguments, the pc
\* past the Call and its operand, and the bottom, chunk and closure it ran
\* with; the Return that pops a frame without halting closes the last one
CallsAfter(calls, m, n) ==
    IF Called(m, n)
    THEN Append(calls, [below |-> Take(m.stack, Len(m.stack) - 1 - NextU8(m)),
                        pc |-> m.pc + 2, bottom |-> m.bottom,
                        chunk_id |-> m.chunk_id, closure_id |-> m.closure_id])
    ELSE IF Returned(m, n) /\ calls # <<>> THEN Take(calls, Len(calls) - 1)
    ELSE calls

\* ret after the step from m to n: the call a Return closed and the value it
\* returned
ReturnAfter(calls, m, n) ==
    IF Returned(m, n) /\ calls # <<>>
    THEN LET c == calls[Len(calls)]
         IN  [some |-> TRUE, below |-> c.below, value |-> Top(m.stack), pc |-> c.pc,
              bottom |-> c.bottom, chunk_id |-> c.chunk_id, closure_id |-> c.closure_id]
    ELSE NoReturn

\* set after the step of m: a SetDef that finds its def stores the popped value
SetAfter(set, m) ==
    IF NextOpcode(m) = "SetDef" /\ m.stack # <<>> /\ NextU16(m) < Len(m.defs)
    THEN [i \in 1..Len(set) |-> IF i = NextU16(m) + 1 THEN SomeValue(Top(m.stack))
                                ELSE set[i]]
    ELSE set

\* read after the step from m to n: what a Def pushed, and what it should have
ReadAfter(set, m, n) ==
    IF NextOpcode(m) = "Def" /\ ~Failed(n)
    THEN [some |-> TRUE, id |-> NextU16(m), value |-> Top(n.stack),
          expected |-> IF set[NextU16(m) + 1].some THEN set[NextU16(m) + 1].value ELSE Nil]
    ELSE NoRead

\* set after the defs of the Vm were resized to len: the defs cut away are
\* forgotten, the new ones were never set
SetResized(set, len) ==
    [i \in 1..len |-> IF i <= Len(set) THEN set[i] ELSE NoValue]

InitEval ==
    \E b \in 1..Len(Programs) :
        LET c == compile_toplevel(<<>>, Programs[b])
        IN  \E defs_len \in {0, Len(c.defs)} :
            /\ chunks = <<c.chunk>>
            /\ defs = c.defs
            /\ brush = SomeBrush(0, c.local_count)
            /\ brush_ok = (c.diagnostics = {})
            /\ vm = VmNew(defs_len)
            /\ cur = Idle
            /\ result = NoResult
            /\ image = VmImage(VmNew(defs_len))
            /\ hist = [HistInit EXCEPT !.src = b, !.diagnostics = c.diagnostics]
            /\ front = [stage |-> "eval", status |-> "fresh", runs |-> 0,
                        from_image |-> FALSE, first |-> NoValue,
                        set |-> SetResized(<<>>, defs_len), read |-> NoRead,
                        call |-> NoCall, calls |-> <<>>, ret |-> NoReturn]

\* The end of an evaluation.
EvalFinish(m, f) ==
    /\ vm' = VmOf(m)
    /\ cur' = Idle
    /\ result' = Outcome(m)
    /\ front' = [f EXCEPT !.status = IF Failed(m) THEN "raised" ELSE "done",
                          !.runs = @ + 1,
                          !.first = IF ~Failed(m) /\ f.from_image /\ ~f.first.some
                                    THEN SomeValue(m.val) ELSE @]

\* apply_defs, create_ref of the brush's closure and run up to its loop; a host
\* evaluates a brush that compiled without diagnostics
EvalBegin ==
    /\ front.stage = "eval" /\ front.status \in {"fresh", "done", "raised"}
    /\ Alive /\ brush_ok /\ front.runs < MaxRuns
    /\ LET a == apply_defs(vm, Len(defs))
           r == create_ref(Machine(a, Idle), ClosureChunk(brush.chunk_id, brush.local_count))
           m == run_enter(r, r.opnd)
           f == [front EXCEPT !.from_image = front.status = "fresh",
                              !.set = SetResized(@, Len(defs)),
                              !.read = NoRead, !.call = NoCall,
                              !.calls = <<>>, !.ret = NoReturn]
       IN  IF Failed(m) THEN EvalFinish(m, f)
           ELSE /\ vm' = VmOf(m)
                /\ cur' = CurOf(m, TRUE)
                /\ result' = NoResult
                /\ front' = [f EXCEPT !.status = "running"]
    /\ UNCHANGED <<chunks, image, brush, brush_ok, defs, hist>>

\* One iteration of the loop of run
EvalStep ==
    /\ front.stage = "eval" /\ front.status = "running"
    /\ \E n \in {exec(Machine(vm, cur))} :
       LET m == Machine(vm, cur)
           f == [front EXCEPT !.set = SetAfter(@, m),
                              !.read = ReadAfter(front.set, m, n),
                              !.call = [mismatch |-> CallMismatch(m),
                                        frames |-> Len(m.call_stack)],
                              !.calls = CallsAfter(@, m, n),
                              !.ret = ReturnAfter(front.calls, m, n)]
       IN  IF Failed(n) THEN EvalFinish(n, f)
           ELSE IF n.halted THEN EvalFinish(run_exit(n), f)
           ELSE /\ vm' = VmOf(n)
                /\ cur' = CurOf(n, TRUE)
                /\ result' = result
                /\ front' = f
    /\ UNCHANGED <<chunks, image, brush, brush_ok, defs, hist>>

\* vm.restore_image(&image) between two evaluations
EvalRestore ==
    /\ front.stage = "eval" /\ front.status \in {"done", "raised"}
    /\ Alive
    /\ LET m == reset_vm(Machine(vm, Idle), image)
       IN  /\ vm' = VmOf(m)
           /\ result' = IF Failed(m) THEN Outcome(m) ELSE result
           /\ front' = [front EXCEPT !.status = "fresh",
                                     !.set = SetResized(@, Len(VmOf(m).defs)),
                                     !.read = NoRead, !.call = NoCall,
                                     !.calls = <<>>, !.ret = NoReturn]
    /\ UNCHANGED <<chunks, cur, image, brush, brush_ok, defs, hist>>

NextEval == EvalBegin \/ EvalStep \/ EvalRestore

SpecEval == InitEval /\ [][NextEval]_vars

\* The evaluation that just ended began at the image.
EndedFromImage ==
    /\ front.stage = "eval"
    /\ front.status \in {"done", "raised"}
    /\ front.from_image

\* C15: once a program without defs has evaluated to a value from the image,
\* every further evaluation of it from the restored image returns that value,
\* the same RefId if it is a ref.
EvalDeterministic ==
    (EndedFromImage /\ front.first.some /\ Programs[hist.src].def_names = <<>>)
        => /\ result.kind = "ok"
           /\ result.value = front.first.value

\* A list was returned a second time, from the restored image.
SameRefTwice ==
    /\ EndedFromImage
    /\ front.runs >= 2
    /\ front.first.some
    /\ Programs[hist.src].def_names = <<>>
    /\ result.kind = "ok"
    /\ result.value.t = "Ref"
    /\ front.first.value = result.value

\* C16: a Call whose argument count is not the param_count of the closure it
\* calls raises "function parameter count mismatch", and the call stack is as
\* long as it was before the Call.
ParamCountMismatchRaises ==
    (front.stage = "eval" /\ front.call.mismatch)
        => /\ Raised("function parameter count mismatch")
           /\ Len(vm.call_stack) = front.call.frames

\* (\x, y -> x) 1 was called and raised.
ParamCountMismatchRaised ==
    /\ front.stage = "eval"
    /\ Programs[hist.src].name = "param_count"
    /\ front.call.mismatch
    /\ front.status = "raised"
    /\ Raised("function parameter count mismatch")

DefReadsLastSetDef ==
    (front.stage = "eval" /\ front.read.some)
        => front.read.value = front.read.expected

\* In forward_def, the Def of y at the start of a later run read the 1 that the
\* run before had stored.
DefReadEarlierRun ==
    /\ front.stage = "eval"
    /\ Programs[hist.src].name = "forward_def"
    /\ front.runs >= 1
    /\ front.status = "running"
    /\ cur.pc = 3
    /\ front.read.some
    /\ front.read.value = Number(IntToF32(1))

ChannelOf(name) ==
    CASE name = "rgbaR" -> 1 [] name = "rgbaG" -> 2 [] name = "rgbaB" -> 3
      [] name = "rgbaA" -> 4

\* A getter of rgba 1 2 3 4 has been evaluated from the image.
RgbaGetterEnded ==
    /\ EndedFromImage
    /\ Programs[hist.src].name \in {"rgbaR", "rgbaG", "rgbaB", "rgbaA"}

\* C25: each getter returns its own channel of rgba r g b a: rgbaR the r,
\* rgbaG the g, rgbaB the b and rgbaA the a.
RgbaGettersReturnChannels ==
    RgbaGetterEnded
        => /\ result.kind = "ok"
           /\ result.value = Number(IntToF32(ChannelOf(Programs[hist.src].name)))

\* rgbaR (rgba 1 2 3 4) returned 1.
RgbaRReturnedOne ==
    /\ RgbaGetterEnded
    /\ Programs[hist.src].name = "rgbaR"
    /\ result.value = Number(IntToF32(1))

(***************************************************************************)
(* Names in the compiler (compiler.rs): scopes, find_variable and the      *)
(* functions of compile_expr that open scopes, bind names or look them up. *)
(* An expression is [k, names, subs]: an "ident" has its name, an "error"  *)
(* its message, a "let" the names it binds with their values and then its  *)
(* body as subs, a "fn" its parameters and its body, a "call" its          *)
(* arguments and then its callee.  The chunk has room for what is emitted. *)
(***************************************************************************)
\* The nesting of the expressions, and the error nodes before one
MaxExprDepth == 2
MaxErrors == 15
\* The items of a Toplevel
MaxItems == 3

\* Requests a session receives, the brush it starts with included
MaxRequests == 5

\* Chunk positions of a wall
MaxPositions == 3

\* Chunk positions passed to AutoSave::request
MaxUnsaved == 2

\* Requests the channel of AutoSave holds: 8 in the source, scaled down
MaxQueued == 2

\* settings.max_sessions of the wall
MaxSessions == 2

\* Calls of Wall::join
MaxJoins == 6

\* Tasks that call Broker::open
MaxCallers == 3

\* Wall ids the tasks open
MaxWalls == 2

\* Entries the cache of ChunkEncoder holds before it evicts: 598 in the
\* source, scaled down; the chunks requested are two more than it holds
MaxEncoded == 3

\* Vec::with_capacity(16) of Compiler::new
CompilerDiagnosticsCapacity == 16

\* u8::MAX
U8Max == 255

Names == {"x", "y"}

Ident(name) == [k |-> "ident", names |-> <<name>>, subs |-> <<>>]

NilExpr == [k |-> "nil", names |-> <<>>, subs |-> <<>>]

ErrorExpr(message) == [k |-> "error", names |-> <<message>>, subs |-> <<>>]

LetExpr(names, values, body) == [k |-> "let", names |-> names, subs |-> Append(values, body)]

FnExpr(params, body) == [k |-> "fn", names |-> params, subs |-> <<body>>]

CallExpr(args, callee) == [k |-> "call", names |-> <<>>, subs |-> Append(args, callee)]

\* Compiler::new
CompilerNew(table) ==
    [defs |-> table, diagnostics |-> <<>>,
     scopes |-> << [locals |-> <<>>, captures |-> <<>>] >>]

\* Compiler::diagnose
diagnose(c, message) ==
    IF Len(c.diagnostics) >= CompilerDiagnosticsCapacity THEN c
    ELSE IF Len(c.diagnostics) = CompilerDiagnosticsCapacity - 1
    THEN [c EXCEPT !.diagnostics = Append(@, "too many diagnostics emitted, stopping")]
    ELSE [c EXCEPT !.diagnostics = Append(@, message)]

\* rposition / position: the index of the last, of the first element equal to x
RPosition(seq, x) ==
    IF x \in Range(seq) THEN (CHOOSE i \in 1..Len(seq) :
                                /\ seq[i] = x
                                /\ \A j \in (i + 1)..Len(seq) : seq[j] # x) - 1
    ELSE None

Position(seq, x) ==
    IF x \in Range(seq) THEN (CHOOSE i \in 1..Len(seq) :
                                /\ seq[i] = x
                                /\ \A j \in 1..(i - 1) : seq[j] # x) - 1
    ELSE None

LocalVariable(index) == [k |-> "Local", index |-> index]

CapturedVariable(index) == [k |-> "Captured", index |-> index]

NoVariable == [k |-> "None", index |-> 0]

\* find_variable: the compiler, with the captures it added, and the Variable,
\* NoVariable or a CaptureError
RECURSIVE find_variable(_, _, _)
find_variable(c, name, scope_index) ==
    LET scope == c.scopes[scope_index + 1]
    IN  IF RPosition(scope.locals, name) # None
        THEN [c |-> c, variable |-> LocalVariable(RPosition(scope.locals, name))]
        ELSE IF scope_index > 0
        THEN LET upper == find_variable(c, name, scope_index - 1)
                 captures == upper.c.scopes[scope_index + 1].captures
                 capture_index == IF Position(captures, upper.variable) # None
                                  THEN Position(captures, upper.variable)
                                  ELSE Len(captures)
                 added == IF Position(captures, upper.variable) # None THEN upper.c
                          ELSE [upper.c EXCEPT !.scopes[scope_index + 1].captures =
                                                    Append(@, upper.variable)]
             IN  IF upper.variable.k \in {"None", "CaptureError"} THEN upper
                 ELSE IF capture_index > U8Max
                 THEN [c |-> added, variable |-> [k |-> "CaptureError", index |-> 0]]
                 ELSE [c |-> added, variable |-> CapturedVariable(capture_index)]
        ELSE [c |-> c, variable |-> NoVariable]

\* compile_ident in the scopes of the compiler
compile_ident_in(c, name) ==
    IF name \in {"false", "true"} THEN c
    ELSE LET found == find_variable(c, name, Len(c.scopes) - 1)
         IN  CASE found.variable.k \in {"Local", "Captured"} -> found.c
               [] found.variable.k = "None" ->
                    IF defs_get(found.c.defs, name) >= 0 THEN found.c
                    ELSE diagnose(found.c, "undefined variable")
               [] OTHER ->
                    diagnose(found.c,
                        "too many variables captured from outer functions in this scope")

\* scope.locals.push(Local { name }) of compile_let, with its limit
push_local(c, name) ==
    IF Len(c.scopes[Len(c.scopes)].locals) >= U8Max
    THEN diagnose(c, "too many names bound in this function at a single time")
    ELSE [c EXCEPT !.scopes[Len(c.scopes)].locals = Append(@, name)]

RECURSIVE compile_expr(_, _)

\* Fault: a binding that is in scope while its own value is compiled.
compile_binding_early(c, name, value) == compile_expr(push_local(c, name), value)

\* One binding of compile_let: the value is compiled, then the name is bound
compile_binding(c, name, value) == push_local(compile_expr(c, value), name)

RECURSIVE compile_bindings(_, _, _)
compile_bindings(c, names, values) ==
    IF names = <<>> THEN c
    ELSE compile_bindings(compile_binding(c, Head(names), Head(values)),
                          Tail(names), Tail(values))

compile_let(c, e) ==
    LET local_count == Len(e.names)
        bound == compile_bindings(c, e.names, SubSeq(e.subs, 1, local_count))
        body == compile_expr(bound, e.subs[local_count + 1])
    IN  [body EXCEPT !.scopes[Len(body.scopes)].locals = Take(@, Len(@) - local_count)]

\* compile_fn: the scope of the parameters around the body
compile_fn_scope(c, e) ==
    LET inner == [c EXCEPT !.scopes = Append(@, [locals |-> e.names, captures |-> <<>>])]
        body == compile_expr(inner, e.subs[1])
        scope == body.scopes[Len(body.scopes)]
        popped == [body EXCEPT !.scopes = Take(@, Len(@) - 1)]
    IN  IF Len(scope.captures) > U8Max
        THEN diagnose(popped,
                "function refers to too many variables from the outer function")
        ELSE popped

\* compile_list of a call: the arguments, then the callee
RECURSIVE compile_list(_, _)
compile_list(c, exprs) ==
    IF exprs = <<>> THEN c ELSE compile_list(compile_expr(c, Head(exprs)), Tail(exprs))

compile_expr(c, e) ==
    CASE e.k = "nil" -> c
      [] e.k = "ident" -> compile_ident_in(c, e.names[1])
      [] e.k = "error" -> diagnose(c, e.names[1])
      [] e.k = "let" -> compile_let(c, e)
      [] e.k = "fn" -> compile_fn_scope(c, e)
      [] e.k = "call" -> compile_list(c, e.subs)

\* A def at the top level: (def name value), or (def) when it has no name
DefExpr(names, values) == [k |-> "def", names |-> names, subs |-> values]

ToplevelExpr(items) == [k |-> "toplevel", names |-> <<>>, subs |-> items]

\* c.defs.add(name) of def_prepass, with the diagnostics of its two errors
defs_add_in(c, name) ==
    IF name \in Range(c.defs)
    THEN diagnose(c, "redefinitions of defs are not allowed")
    ELSE IF Len(c.defs) >= max_defs THEN diagnose(c, "too many defs")
    ELSE [c EXCEPT !.defs = Append(@, name)]

\* def_prepass over the items of a Toplevel
RECURSIVE def_prepass_in(_, _)
def_prepass_in(c, items) ==
    IF items = <<>> THEN c
    ELSE LET item == Head(items)
         IN  def_prepass_in(IF item.k = "def" /\ item.names # <<>>
                            THEN defs_add_in(c, item.names[1]) ELSE c,
                            Tail(items))

\* compile_def
compile_def(c, e) ==
    IF e.names = <<>> THEN diagnose(c, "missing definition name")
    ELSE compile_expr(c, e.subs[1])

\* compile_toplevel_expr: the compiler, and whether the item was a Def or a
\* Result
compile_toplevel_expr(c, e) ==
    IF e.k = "def" THEN [c |-> compile_def(c, e), kind |-> "Def"]
    ELSE [c |-> compile_expr(c, e), kind |-> "Result"]

\* Fault: a loop that leaves a result followed by an item undiagnosed.
after_result_silent(t, tail) == [t EXCEPT !.done = TRUE]

\* The end of one turn of the loop of compile_toplevel, for a turn that had a
\* result with the items of tail after it
after_result(t, tail) ==
    IF tail # <<>>
    THEN [t EXCEPT !.c = diagnose(@, "result value may not be followed by anything else"),
                   !.done = TRUE]
    ELSE t

\* The loop of compile_toplevel: t holds the compiler, had_result, the number
\* of the items compiled and whether the loop broke
RECURSIVE compile_toplevel_loop(_, _)
compile_toplevel_loop(t, items) ==
    IF items = <<>> \/ t.done THEN t
    ELSE LET item == compile_toplevel_expr(t.c, Head(items))
             had_result == t.had_result \/ item.kind = "Result"
             turn == [t EXCEPT !.c = item.c, !.had_result = had_result,
                               !.compiled = @ + 1]
         IN  compile_toplevel_loop(IF had_result THEN after_result(turn, Tail(items))
                                   ELSE turn,
                                   Tail(items))

\* compile_toplevel in the scopes of the compiler: the prepass, the loop, and
\* the opcodes emitted after it
compile_toplevel_in(c, e) ==
    LET t == compile_toplevel_loop(
                [c |-> def_prepass_in(c, e.subs), had_result |-> FALSE,
                 compiled |-> 0, done |-> FALSE],
                e.subs)
    IN  [c |-> t.c, compiled |-> t.compiled, result |-> "Ok",
         emitted |-> IF t.had_result THEN <<"Return">> ELSE <<"Nil", "Return">>]

Leaves == {NilExpr} \cup {Ident(n) : n \in Names}

RECURSIVE ExprsOfDepth(_)
ExprsOfDepth(depth) ==
    IF depth = 0 THEN Leaves
    ELSE LET S == ExprsOfDepth(depth - 1)
         IN  S \cup {LetExpr(<<n>>, <<v>>, b) : n \in Names, v \in S, b \in Leaves}
               \cup {LetExpr(<<n>>, <<v>>, b) : n \in Names, v \in Leaves, b \in S}
               \cup {FnExpr(<<n>>, b) : n \in Names, b \in S}

\* n error nodes, as the arguments of a call
Errors(n) == [i \in 1..n |-> ErrorExpr("error node")]

\* The expressions compiled: those of MaxExprDepth, the lets of two bindings,
\* and calls whose callee comes after error nodes.
CompileInputs ==
    ExprsOfDepth(MaxExprDepth)
    \cup {LetExpr(<<n, m>>, <<v, w>>, b) :
            n \in Names, m \in Names, v \in Leaves, w \in Leaves, b \in Leaves}
    \cup {CallExpr(Errors(n), e) : n \in 0..MaxErrors, e \in ExprsOfDepth(1)}

\* The names an expression refers to without binding them.
RECURSIVE Free(_)
RECURSIVE FreeOfLet(_, _)
FreeOfLet(names, subs) ==
    IF names = <<>> THEN Free(subs[1])
    ELSE Free(Head(subs)) \cup (FreeOfLet(Tail(names), Tail(subs)) \ {Head(names)})

Free(e) ==
    CASE e.k = "ident" -> {e.names[1]}
      [] e.k = "let" -> FreeOfLet(e.names, e.subs)
      [] e.k = "fn" -> Free(e.subs[1]) \ Range(e.names)
      [] e.k = "call" -> UNION {Free(e.subs[i]) : i \in 1..Len(e.subs)}
      [] OTHER -> {}

\* Some let of e binds a name that its own value refers to, where known holds
\* the names of the enclosing locals, captures and defs.
RECURSIVE SelfReference(_, _)
SelfReference(e, known) ==
    CASE e.k = "let" ->
            \/ \E i \in 1..Len(e.names) :
                LET earlier == {e.names[j] : j \in 1..(i - 1)}
                IN  \/ e.names[i] \in Free(e.subs[i]) \ (known \cup earlier)
                    \/ SelfReference(e.subs[i], known \cup earlier)
            \/ SelfReference(e.subs[Len(e.subs)], known \cup Range(e.names))
      [] e.k = "fn" -> SelfReference(e.subs[1], known \cup Range(e.names))
      [] e.k = "call" -> \E i \in 1..Len(e.subs) : SelfReference(e.subs[i], known)
      [] OTHER -> FALSE

\* The items of a Toplevel: defs, a def without a name, and expressions
ToplevelItems ==
    {DefExpr(<<n>>, <<NilExpr>>) : n \in Names}
    \cup {DefExpr(<<>>, <<>>), NilExpr, Ident("x"), LetExpr(<<"y">>, <<NilExpr>>, Ident("y"))}

\* n defs without a name
NamelessDefs(n) == [i \in 1..n |-> DefExpr(<<>>, <<>>)]

\* The Toplevels compiled: up to MaxItems items, and those of up to two items
\* after defs without a name.
ToplevelInputs ==
    {ToplevelExpr(items) : items \in SeqsUpTo(ToplevelItems, MaxItems)}
    \cup {ToplevelExpr(NamelessDefs(n) \o items) :
            n \in 1..MaxErrors, items \in SeqsUpTo({NilExpr, DefExpr(<<"x">>, <<NilExpr>>)}, 2)}

\* Compiler::new over the Defs of the instance, which hold no name or x
InitCompile ==
    /\ VmUntouched
    /\ \E e \in CompileInputs \cup ToplevelInputs, table \in {<<>>, <<"x">>} :
        front = [stage |-> "compile", status |-> "new", expr |-> e,
                 compiler |-> CompilerNew(table)]

\* compile_expr(&mut compiler, &src, root)
CompileExpr ==
    /\ front.stage = "compile" /\ front.status = "new"
    /\ front.expr.k # "toplevel"
    /\ \E c \in {compile_expr(front.compiler, front.expr)} :
        front' = [front EXCEPT !.status = "compiled", !.compiler = c]
    /\ UNCHANGED <<chunks, vm, cur, result, image, brush, brush_ok, defs, hist>>

\* compile_expr(&mut compiler, &src, root) of a root that is a Toplevel
CompileToplevel ==
    /\ front.stage = "compile" /\ front.status = "new"
    /\ front.expr.k = "toplevel"
    /\ \E t \in {compile_toplevel_in(front.compiler, front.expr)} :
        front' = [stage |-> "compile", status |-> "compiled", expr |-> front.expr,
                  compiler |-> t.c, toplevel |-> t]
    /\ UNCHANGED <<chunks, vm, cur, result, image, brush, brush_ok, defs, hist>>

NextCompile == CompileExpr \/ CompileToplevel

SpecCompile == InitCompile /\ [][NextCompile]_vars

\* An expression with a let that refers to itself has been compiled.
SelfReferenceCompiled ==
    /\ front.stage = "compile"
    /\ front.status = "compiled"
    /\ SelfReference(front.expr, Range(front.compiler.defs))

ResultFollowed ==
    /\ front.stage = "compile"
    /\ front.status = "compiled"
    /\ front.expr.k = "toplevel"
    /\ \E i \in 1..(Len(front.expr.subs) - 1) : front.expr.subs[i].k # "def"

Vec4Value(x, y, z, w) == [t |-> "Vec4", n |-> 0, x |-> x, y |-> y, z |-> z, w |-> w]

ShapeRef == [k |-> "Shape", elems |-> <<>>]

\* Ref::Scribble of a Scribble::Stroke or a Scribble::Fill
ScribbleRef(scribble) == [k |-> "Scribble", scribble |-> scribble, elems |-> <<>>]

\* Vm::get_ref_value
get_ref_value(refs, value) ==
    IF value.t = "Ref" THEN [some |-> TRUE, id |-> value.n, ref |-> refs[value.n + 1]]
    ELSE [some |-> FALSE, id |-> 0, ref |-> ShapeRef]

\* render_stroke and render_fill: the path goes to the pixmap
render_scribble(r, id) == [r EXCEPT !.drawn = Append(@, id)]

RECURSIVE render_into(_, _, _)

\* Fault: a list that counts as drawn whatever its elements are.
render_elements_lenient(refs, elements, r) == [r EXCEPT !.status = "ok"]

\* for element in &list.elements { self.render(vm, *element)?; }
RECURSIVE render_elements(_, _, _)
render_elements(refs, elements, r) ==
    IF elements = <<>> \/ r.status # "ok" THEN r
    ELSE render_elements(refs, Tail(elements), render_into(refs, Head(elements), r))

\* Renderer::render, on a renderer that has drawn r.drawn
render_into(refs, value, r) ==
    LET found == get_ref_value(refs, value)
    IN  IF ~found.some THEN [r EXCEPT !.status = "cannot draw something that is not a scribble"]
        ELSE CASE found.ref.k = "List" -> render_elements(refs, found.ref.elems, r)
               [] found.ref.k = "Scribble" -> render_scribble(r, found.id)
               [] OTHER ->
                    [r EXCEPT !.status = "cannot draw something that is not a scribble"]

\* Renderer::new, then render
render(refs, value) == render_into(refs, value, [status |-> "ok", drawn |-> <<>>])

\* The values that are no refs
Atoms ==
    {Nil, False, True, Number(IntToF32(1)),
     Vec4Value(IntToF32(1), IntToF32(2), 0, 0),
     RgbaValue(IntToF32(1), 0, 0, IntToF32(1))}

\* The lists of up to two elements
ListsOf(values) ==
    {<<>>} \cup {<<v>> : v \in values} \cup {<<v, w>> : v \in values, w \in values}

\* The refs a Vm creates when it holds n refs: a list holds atoms and refs
\* created before it
RefsAfter(n) ==
    {ClosureChunk(0, 0), ShapeRef, ScribbleRef("Stroke"), ScribbleRef("Fill")}
    \cup {ListRef(elements) : elements \in ListsOf({Nil} \cup {RefValue(i) : i \in 0..(n - 1)})}

RECURSIVE Heaps(_)
Heaps(n) ==
    IF n = 0 THEN {<<>>}
    ELSE LET H == Heaps(n - 1)
         IN  H \cup {Append(h, r) : h \in {g \in H : Len(g) = n - 1}, r \in RefsAfter(n - 1)}

\* A Vm with its refs, and the value the host hands to render_value
InitDraw ==
    /\ chunks = <<>>
    /\ defs = <<>>
    /\ brush = NoBrush
    /\ brush_ok = FALSE
    /\ cur = Idle
    /\ result = NoResult
    /\ hist = HistInit
    /\ \E refs \in Heaps(ref_capacity) :
        /\ vm = [VmNew(0) EXCEPT !.refs = refs]
        /\ image = VmImage(vm)
        /\ \E value \in Atoms \cup {RefValue(i) : i \in 0..(Len(refs) - 1)} :
            front = [stage |-> "render", status |-> "new", value |-> value, drawn |-> <<>>]

\* Haku::render_value: renderer.render(&self.vm, value)
RenderValue ==
    /\ front.stage = "render" /\ front.status = "new"
    /\ \E r \in {render(vm.refs, front.value)} :
        front' = [front EXCEPT !.status = r.status, !.drawn = r.drawn]
    /\ UNCHANGED <<chunks, vm, cur, result, image, brush, brush_ok, defs, hist>>

NextDraw == RenderValue

SpecDraw == InitDraw /\ [][NextDraw]_vars

\* A value is renderable: a ref to a scribble, or a ref to a list of renderable
\* values.
RECURSIVE Renderable(_, _)
Renderable(refs, value) ==
    /\ value.t = "Ref"
    /\ \/ refs[value.n + 1].k = "Scribble"
       \/ /\ refs[value.n + 1].k = "List"
          /\ \A i \in 1..Len(refs[value.n + 1].elems) :
                Renderable(refs, refs[value.n + 1].elems[i])

\* The scribbles under a value, from left to right
RECURSIVE Scribbles(_, _)
RECURSIVE ScribblesOf(_, _)
ScribblesOf(refs, elements) ==
    IF elements = <<>> THEN <<>>
    ELSE Scribbles(refs, Head(elements)) \o ScribblesOf(refs, Tail(elements))

Scribbles(refs, value) ==
    IF value.t # "Ref" THEN <<>>
    ELSE CASE refs[value.n + 1].k = "Scribble" -> <<value.n>>
           [] refs[value.n + 1].k = "List" -> ScribblesOf(refs, refs[value.n + 1].elems)
           [] OTHER -> <<>>

HaltsIdleRun ==
    /\ front.stage = "eval"
    /\ front.status = "running"
    /\ front.from_image
    /\ front'.status = "done"

\* C27: a run that returns Ok on an idle Vm ends at the Return of the initial
\* frame, the only frame left, and returns the value that Return popped; it
\* leaves the value stack at its entry length and the call stack empty.
IdleRunReturnsInitialFrame ==
    [][HaltsIdleRun
        => /\ AtOpcode("Return")
           /\ cur.init_bottom = 0
           /\ Len(vm.call_stack) = 1
           /\ vm.call_stack[1].bottom = 0
           /\ cur.closure_id = vm.call_stack[1].closure_id
           /\ vm.refs[cur.closure_id + 1] = ClosureChunk(brush.chunk_id, brush.local_count)
           /\ result'.kind = "ok"
           /\ result'.value = vm.stack[Len(vm.stack)]
           /\ vm'.stack = <<>>
           /\ vm'.call_stack = <<>>]_vars

\* f 1 of the mutually recursive defs returned 2 from the image, after two
\* calls, and left the Vm idle.
IdleRunReturned ==
    /\ EndedFromImage
    /\ Programs[hist.src].name = "def_mutually_recursive"
    /\ result.kind = "ok"
    /\ result.value = Number(IntToF32(2))
    /\ vm.stack = <<>>
    /\ vm.call_stack = <<>>


(***************************************************************************)
(* Call and Return, under SpecEval.                                        *)
(***************************************************************************)
\* C28: when a Return closes a Call n, the stack is the slots that lay below
\* the call's n arguments, unchanged, followed by the one return value, and
\* the caller goes on after the Call with its bottom, chunk and closure.
CallReturnFrameEffect ==
    (front.stage = "eval" /\ front.ret.some)
        => /\ vm.stack = Append(front.ret.below, front.ret.value)
           /\ cur.pc = front.ret.pc
           /\ cur.bottom = front.ret.bottom
           /\ cur.chunk_id = front.ret.chunk_id
           /\ cur.closure_id = front.ret.closure_id

(***************************************************************************)
(* System, under SpecEval.                                                 *)
(***************************************************************************)
\* Argument i of the System at pc, of its n arguments: stack[len - n + i]
SystemArg(i) == vm.stack[Len(vm.stack) - Operand(2) + i + 1]

\* The System at pc went through and run goes on.
SystemDone == front.stage = "eval" /\ AtOpcode("System") /\ cur'.running

\* C29: a `System idx, n` that goes through leaves the stack below its n
\* arguments as it was and one value in their place; that value is argument 0
\* plus argument 1 for `+` and argument 0 minus argument 1 for `-`, the
\* arguments counted from stack[len - n] up, and 10 - 3 evaluates to 7.
SystemArgsInSourceOrder ==
    [][/\ SystemDone
          => /\ Len(vm.stack) >= Operand(2)
             /\ Len(vm'.stack) = Len(vm.stack) - Operand(2) + 1
             /\ Take(vm'.stack, Len(vm.stack) - Operand(2))
                    = Take(vm.stack, Len(vm.stack) - Operand(2))
             /\ Operand(1) = SystemAdd
                    => Top(vm'.stack) = Number(F32Add(SystemArg(0).n, SystemArg(1).n))
             /\ Operand(1) = SystemSub
                    => Top(vm'.stack) = Number(F32Sub(SystemArg(0).n, SystemArg(1).n))
       /\ (EndedFromImage' /\ Programs[hist.src].name = "sub")
          => /\ result'.kind = "ok"
             /\ result'.value = Number(IntToF32(7))]_vars

\* 10 - 3 returned 7.
SubReturnedSeven ==
    /\ EndedFromImage
    /\ Programs[hist.src].name = "sub"
    /\ result.kind = "ok"
    /\ result.value = Number(IntToF32(7))

(***************************************************************************)
(* Fuel across runs, under Spec.                                           *)
(***************************************************************************)
\* C30: when a call of run has returned or raised, remaining_fuel is what it
\* was when the call began minus the opcodes the call fetched.
FuelCumulative ==
    (RunEnded /\ result.kind \in {"ok", "exception"})
        => vm.fuel = hist.entry.fuel - hist.executed

(***************************************************************************)
(* Refs left in the defs by restore_image, under Spec.                     *)
(***************************************************************************)
\* C31: after restore_image every Value::Ref in the defs of the Vm has an id
\* below refs.len.
RestoredDefsReferToRefs ==
    (hist.op = "restore_image" /\ Alive)
        => \A i \in 1..Len(vm.defs) :
              vm.defs[i].t = "Ref" => vm.defs[i].n < Len(vm.refs)

(***************************************************************************)
(* The facade under a host that calls set_brush, eval_brush and reset_vm   *)
(* in any order.  brush_ok keeps what the last set_brush returned.         *)
(***************************************************************************)
\* haku.eval_brush()
EvalBrush ==
    /\ Alive
    /\ \E m \in {eval_brush(Machine(vm, Idle), brush, defs)} :
          /\ vm' = VmOf(m)
          /\ result' = Outcome(m)
          /\ hist' = [Sticky("eval_brush") EXCEPT !.evaluated = brush.some,
                                                  !.entry = VmImage(vm)]
    /\ UNCHANGED <<chunks, cur, image, brush, brush_ok, defs, front>>

\* haku.reset_vm()
ResetVm ==
    /\ Alive
    /\ \E m \in {reset_vm(Machine(vm, Idle), image)} :
          /\ vm' = VmOf(m)
          /\ result' = Outcome(m)
          /\ hist' = [Sticky("reset_vm") EXCEPT !.before = VmImage(vm)]
    /\ UNCHANGED <<chunks, cur, image, brush, brush_ok, defs, front>>

NextHaku ==
    \/ \E b \in 1..Len(Sources) : SetBrush(b)
    \/ EvalBrush
    \/ ResetVm

SpecHaku == InitRender /\ [][NextHaku]_vars

\* C32: the brush the facade holds is a chunk of its System, and an eval_brush
\* after a set_brush that failed reports an error.
BrushIsRegistered ==
    /\ brush.some => brush.chunk_id < Len(chunks)
    /\ (hist.op = "eval_brush" /\ ~brush_ok) => result.kind = "error"

(***************************************************************************)
(* apply_defs in the render thread, under SpecRender.                      *)
(***************************************************************************)
\* C33: whenever the render thread may evaluate the brush, the defs of the Vm
\* are no longer than the def table, and no Plot ends with the panic of
\* apply_defs.
ApplyDefsPrecondition ==
    /\ (Alive /\ brush_ok) => Len(vm.defs) <= Len(defs)
    /\ ~(result.kind = "panic"
            /\ result.message = "defs must be a superset of the current VM")

(***************************************************************************)
(* The refs of the Vm, under SpecHaku.                                     *)
(***************************************************************************)
\* C34: every Value::Ref held in a ref, as a list element or as a capture of
\* a closure, has an id below the id of the ref that holds it.
RefsPointDown ==
    \A i \in 1..Len(vm.refs) :
        \A j \in 1..Len(vm.refs[i].elems) :
            vm.refs[i].elems[j].t = "Ref" => vm.refs[i].elems[j].n < i - 1

\* [[()]] was evaluated: ref 2 is the list that holds ref 1.
NestedListHeld ==
    /\ hist.op = "eval_brush"
    /\ hist.src # 0
    /\ Sources[hist.src].name = "nested_list"
    /\ result.kind = "ok"
    /\ result.value = RefValue(2)
    /\ Len(vm.refs) = 3
    /\ vm.refs[3] = ListRef(<<RefValue(1)>>)

(***************************************************************************)
(* A session and its render thread (crates/rkgk/src/api/wall.rs).  front   *)
(* holds the mpsc channel of capacity 1 between them and what is known of  *)
(* the requests: received counts them, last_set is the latest SetBrush     *)
(* received, taken and set_seq the last command and the last SetBrush the  *)
(* thread took, plot the Plot it has just processed.                       *)
(***************************************************************************)
RenderQueueCapacity == 1

NoPlot == [some |-> FALSE, set |-> 0, brush |-> 0]

SetBrushMessage(b, seq) == [cmd |-> "SetBrush", brush |-> b, set |-> seq, seq |-> seq]

PlotMessage(last_set, seq) ==
    [cmd |-> "Plot", brush |-> last_set.brush, set |-> last_set.seq, seq |-> seq]

\* SessionLoop::start: the channel is made and the first SetBrush sent before
\* the render thread is spawned
InitSession ==
    \E b \in 1..Len(Sources) :
        /\ chunks = <<>>
        /\ defs = <<>>
        /\ brush = NoBrush
        /\ brush_ok = FALSE
        /\ vm = VmNew(0)
        /\ cur = Idle
        /\ result = NoResult
        /\ image = VmImage(VmNew(0))
        /\ hist = HistInit
        /\ front = [stage |-> "session", queue |-> <<SetBrushMessage(b, 1)>>,
                    received |-> 1, last_set |-> [seq |-> 1, brush |-> b],
                    set_brush_lost |-> FALSE, in_order |-> TRUE, taken |-> 0,
                    set_seq |-> 0, plot |-> NoPlot]

\* render_commands_tx.send(..).await, its result ignored: an error when the
\* receiver is gone, and no return before the channel has room
send(f, message) ==
    IF ~Alive THEN [f EXCEPT !.set_brush_lost = TRUE]
    ELSE [f EXCEPT !.queue = Append(@, message)]

\* render_commands_tx.try_send(..), its result ignored
try_send(f, message) ==
    IF ~Alive \/ Len(f.queue) >= RenderQueueCapacity THEN f
    ELSE [f EXCEPT !.queue = Append(@, message)]

\* process_request, wall::EventKind::SetBrush
ReceiveSetBrush(b) ==
    /\ front.stage = "session" /\ front.received < MaxRequests
    /\ LET seq == front.received + 1
           f == [front EXCEPT !.received = seq, !.last_set = [seq |-> seq, brush |-> b]]
       IN  /\ ~Alive \/ Len(front.queue) < RenderQueueCapacity
           /\ front' = send(f, SetBrushMessage(b, seq))
    /\ UNCHANGED <<chunks, vm, cur, result, image, brush, brush_ok, defs, hist>>

\* process_request, wall::EventKind::Plot: the command is sent when the
\* chunks were loaded
ReceivePlot(loaded) ==
    /\ front.stage = "session" /\ front.received < MaxRequests
    /\ LET seq == front.received + 1
           f == [front EXCEPT !.received = seq]
       IN  front' = IF loaded THEN try_send(f, PlotMessage(front.last_set, seq)) ELSE f
    /\ UNCHANGED <<chunks, vm, cur, result, image, brush, brush_ok, defs, hist>>

\* front after commands.blocking_recv() returned the head of the queue
Received(f) ==
    LET command == Head(f.queue)
    IN  [f EXCEPT !.queue = Tail(@),
                  !.in_order = @ /\ command.seq > f.taken,
                  !.taken = command.seq,
                  !.set_seq = IF command.cmd = "SetBrush" THEN command.seq ELSE @,
                  !.plot = IF command.cmd = "Plot"
                           THEN [some |-> TRUE, set |-> command.set, brush |-> command.brush]
                           ELSE NoPlot]

RenderSetBrush ==
    /\ front.stage = "session" /\ front.queue # <<>>
    /\ Head(front.queue).cmd = "SetBrush"
    /\ SetBrushCommand(Head(front.queue).brush)
    /\ front' = Received(front)

RenderPlot ==
    /\ front.stage = "session" /\ front.queue # <<>>
    /\ Head(front.queue).cmd = "Plot"
    /\ PlotCommand
    /\ front' = Received(front)

NextSession ==
    \/ \E b \in 1..Len(Sources) : ReceiveSetBrush(b)
    \/ \E loaded \in BOOLEAN : ReceivePlot(loaded)
    \/ RenderSetBrush
    \/ RenderPlot

SpecSession == InitSession /\ [][NextSession]_vars

\* set_brush of the source succeeds on a Haku that was reset
CompilesClean(b) == set_brush([chunks |-> <<>>, defs |-> <<>>, brush |-> NoBrush], Sources[b]).ok

\* C35: no SetBrush a session received is lost, the render thread takes its
\* commands in the order they were received, and the Plot it has just
\* processed found the brush of the latest SetBrush received before it, was
\* evaluated if that brush compiled and skipped if it did not.
SetBrushDeliveredInOrder ==
    front.stage = "session"
        => /\ ~front.set_brush_lost
           /\ front.in_order
           /\ front.plot.some
                => /\ front.plot.set = front.set_seq
                   /\ hist.src = front.plot.brush
                   /\ hist.evaluated = CompilesClean(front.plot.brush)

(***************************************************************************)
(* ChunkImages (crates/rkgk/src/wall/chunk_images.rs).  front holds the    *)
(* positions of the chunks loaded in the wall, those stored in the         *)
(* database, and the last Encode command: the positions requested, those   *)
(* handed to read_chunks and the reply, a sequence of (position, origin).  *)
(***************************************************************************)
Positions == 1..MaxPositions

\* The sequences of distinct positions
PositionLists ==
    {c \in UNION {[1..n -> Positions] : n \in 0..MaxPositions} :
        \A i, j \in 1..Len(c) : i # j => c[i] # c[j]}

\* Vec::retain in encode: the positions kept, and those pushed to unloaded
retain_loaded(wall, positions) ==
    LET is_loaded(position) == position \in wall
    IN  [chunks |-> SelectSeq(positions, is_loaded), unloaded |-> positions]

\* The chunks encoded from the wall's pixmaps
encode_loaded(wall, positions) ==
    LET has_chunk(position) == position \in wall
        found == SelectSeq(positions, has_chunk)
    IN  [i \in 1..Len(found) |-> [position |-> found[i], from |-> "wall"]]

\* Database, Command::Write: the positions stored afterwards
write_chunks(db, pairs, ok) == IF ok THEN db \cup {pairs[i].position : i \in 1..Len(pairs)} ELSE db

\* Database, Command::Read: a pair for every position that has a row
read_chunks(db, positions) ==
    LET in_db(position) == position \in db
        found == SelectSeq(positions, in_db)
    IN  [i \in 1..Len(found) |-> [position |-> found[i], from |-> "db"]]

\* ChunkImageLoop::encode
encode(wall, db, positions, write_ok, read_ok) ==
    LET r == retain_loaded(wall, positions)
        loaded == encode_loaded(wall, r.chunks)
        written == write_chunks(db, loaded, write_ok)
    IN  [db |-> written, read |-> r.unloaded,
         reply |-> IF read_ok THEN loaded \o read_chunks(written, r.unloaded) ELSE loaded]

InitImages ==
    \E db \in SUBSET Positions :
        /\ chunks = <<>>
        /\ defs = <<>>
        /\ brush = NoBrush
        /\ brush_ok = FALSE
        /\ vm = VmNew(0)
        /\ cur = Idle
        /\ result = NoResult
        /\ image = VmImage(VmNew(0))
        /\ hist = HistInit
        /\ front = [stage |-> "images", wall |-> {}, db |-> db, replied |-> FALSE,
                    requested |-> <<>>, read |-> <<>>, reply |-> <<>>]

\* Wall::get_or_create_chunk: a chunk is loaded from now on
CreateChunk(position) ==
    /\ front.stage = "images" /\ position \notin front.wall
    /\ front' = [front EXCEPT !.wall = @ \cup {position}, !.replied = FALSE,
                              !.requested = <<>>, !.read = <<>>, !.reply = <<>>]
    /\ UNCHANGED <<chunks, vm, cur, result, image, brush, brush_ok, defs, hist>>

\* ChunkImages::encoded(chunks), to its reply
Encoded(requested, write_ok, read_ok) ==
    /\ front.stage = "images"
    /\ LET e == encode(front.wall, front.db, requested, write_ok, read_ok)
       IN  front' = [front EXCEPT !.db = e.db, !.replied = TRUE, !.requested = requested,
                                 !.read = e.read, !.reply = e.reply]
    /\ UNCHANGED <<chunks, vm, cur, result, image, brush, brush_ok, defs, hist>>

NextImages ==
    \/ \E position \in Positions : CreateChunk(position)
    \/ \E requested \in PositionLists, write_ok, read_ok \in BOOLEAN :
          Encoded(requested, write_ok, read_ok)

SpecImages == InitImages /\ [][NextImages]_vars

\* C36: the reply of encoded holds at most one image for each position, the
\* positions handed to read_chunks are the requested ones that are not loaded
\* in the wall, and every image of a loaded position is encoded from the wall.
EncodedOncePerPosition ==
    (front.stage = "images" /\ front.replied)
        => /\ \A position \in Positions :
                Cardinality({i \in 1..Len(front.reply) :
                                front.reply[i].position = position}) <= 1
           /\ Range(front.read) = Range(front.requested) \ front.wall
           /\ \A i \in 1..Len(front.reply) :
                front.reply[i].position \in front.wall <=> front.reply[i].from = "wall"

(***************************************************************************)
(* ChunkEncoder (crates/rkgk/src/wall/chunk_encoder.rs).  front holds      *)
(* encoded_lru as the sequence of its keys in the order of the IndexMap,   *)
(* the same keys in the order they were last requested, and the entry the  *)
(* last command evicted.                                                   *)
(***************************************************************************)
NoEviction == [some |-> FALSE, position |-> 0, least_recent |-> 0]

\* The chunks a client asks for
EncoderPositions == 1..(MaxEncoded + 2)

\* The sequence without the position
Without(positions, position) ==
    LET other(q) == q # position
    IN  SelectSeq(positions, other)

\* IndexMap::shift_remove_index(0)
shift_remove_index_0(lru) == Tail(lru)

\* IndexMap::insert of a key the map does not hold: it goes last
insert(lru, position) == Append(lru, position)

InitEncoder ==
    /\ chunks = <<>>
    /\ defs = <<>>
    /\ brush = NoBrush
    /\ brush_ok = FALSE
    /\ vm = VmNew(0)
    /\ cur = Idle
    /\ result = NoResult
    /\ image = VmImage(VmNew(0))
    /\ hist = HistInit
    /\ front = [stage |-> "encoder", encoded_lru |-> <<>>, requested |-> <<>>,
                hit |-> FALSE, evicted |-> NoEviction]

\* Command::GetEncoded { chunk, reply }
GetEncoded(chunk) ==
    /\ front.stage = "encoder"
    /\ LET lru == front.encoded_lru
           requested == Append(Without(front.requested, chunk), chunk)
       IN  IF chunk \in Range(lru)
           THEN front' = [front EXCEPT !.requested = requested, !.hit = TRUE,
                                      !.evicted = NoEviction]
           ELSE IF Len(lru) >= MaxEncoded
           THEN front' = [front EXCEPT
                    !.encoded_lru = insert(shift_remove_index_0(lru), chunk),
                    !.requested = Without(requested, lru[1]),
                    !.hit = FALSE,
                    !.evicted = [some |-> TRUE, position |-> lru[1],
                                 least_recent |-> front.requested[1]]]
           ELSE front' = [front EXCEPT !.encoded_lru = insert(lru, chunk),
                                      !.requested = requested, !.hit = FALSE,
                                      !.evicted = NoEviction]
    /\ UNCHANGED <<chunks, vm, cur, result, image, brush, brush_ok, defs, hist>>

\* Command::Invalidate { chunk }: encoded_lru.shift_remove(&chunk)
Invalidate(chunk) ==
    /\ front.stage = "encoder"
    /\ front' = [front EXCEPT !.encoded_lru = Without(@, chunk),
                              !.requested = Without(@, chunk),
                              !.hit = FALSE, !.evicted = NoEviction]
    /\ UNCHANGED <<chunks, vm, cur, result, image, brush, brush_ok, defs, hist>>

NextEncoder ==
    \/ \E chunk \in EncoderPositions : GetEncoded(chunk)
    \/ \E chunk \in EncoderPositions : Invalidate(chunk)

SpecEncoder == InitEncoder /\ [][NextEncoder]_vars

\* C37: the cache never holds more entries than its capacity, and the entry
\* it evicts is the one requested least recently.
EvictsLeastRecentlyRequested ==
    front.stage = "encoder"
        => /\ Len(front.encoded_lru) <= MaxEncoded
           /\ front.evicted.some => front.evicted.position = front.evicted.least_recent

(***************************************************************************)
(* AutoSave (crates/rkgk/src/wall/auto_save.rs).  front holds the channel  *)
(* of requests, each the set of the positions of its Vec, unsaved_chunks,  *)
(* whether the AutoSave handle is still held and the loop still running,   *)
(* the positions the last tick handed to ChunkImages::encoded, and pending, *)
(* the positions requested and not handed over since.                      *)
(***************************************************************************)
UnsavedPositions == 1..MaxUnsaved

\* Fault: a request that replaces the unsaved chunks instead of adding to them.
insert_positions_only(unsaved_chunks, positions) == positions

\* for position in positions { self.unsaved_chunks.insert(position); }
insert_positions(unsaved_chunks, positions) == unsaved_chunks \cup positions

InitAutoSave ==
    /\ chunks = <<>>
    /\ defs = <<>>
    /\ brush = NoBrush
    /\ brush_ok = FALSE
    /\ vm = VmNew(0)
    /\ cur = Idle
    /\ result = NoResult
    /\ image = VmImage(VmNew(0))
    /\ hist = HistInit
    /\ front = [stage |-> "auto_save", requests |-> <<>>, unsaved_chunks |-> {},
                handle |-> TRUE, running |-> TRUE, handed |-> {}, ticked |-> FALSE,
                pending |-> {}]

\* AutoSave::request(chunks): requests_tx.send(chunks).await returns when the
\* channel had room, or at once with an error when the loop is gone
Request(positions) ==
    /\ front.stage = "auto_save" /\ front.handle
    /\ ~front.running \/ Len(front.requests) < MaxQueued
    /\ front' = [front EXCEPT
            !.requests = IF front.running THEN Append(@, positions) ELSE @,
            !.pending = @ \cup positions,
            !.handed = {}, !.ticked = FALSE]
    /\ UNCHANGED <<chunks, vm, cur, result, image, brush, brush_ok, defs, hist>>

\* The last AutoSave handle is dropped
DropHandle ==
    /\ front.stage = "auto_save" /\ front.handle
    /\ front' = [front EXCEPT !.handle = FALSE, !.handed = {}, !.ticked = FALSE]
    /\ UNCHANGED <<chunks, vm, cur, result, image, brush, brush_ok, defs, hist>>

\* select!: request = self.requests_rx.recv(), Some(positions)
RecvRequest ==
    /\ front.stage = "auto_save" /\ front.running /\ front.requests # <<>>
    /\ front' = [front EXCEPT
            !.requests = Tail(@),
            !.unsaved_chunks = insert_positions(@, Head(front.requests)),
            !.handed = {}, !.ticked = FALSE]
    /\ UNCHANGED <<chunks, vm, cur, result, image, brush, brush_ok, defs, hist>>

\* select!: request = self.requests_rx.recv(), None: every sender is gone
\* and the channel is empty
RecvClosed ==
    /\ front.stage = "auto_save" /\ front.running
    /\ ~front.handle /\ front.requests = <<>>
    /\ front' = [front EXCEPT !.running = FALSE, !.handed = {}, !.ticked = FALSE]
    /\ UNCHANGED <<chunks, vm, cur, result, image, brush, brush_ok, defs, hist>>

\* select!: _ = save_interval.tick() => self.save_chunks().await
Tick ==
    /\ front.stage = "auto_save" /\ front.running
    /\ front' = [front EXCEPT !.unsaved_chunks = {},
                              !.handed = front.unsaved_chunks, !.ticked = TRUE,
                              !.pending = @ \ front.unsaved_chunks]
    /\ UNCHANGED <<chunks, vm, cur, result, image, brush, brush_ok, defs, hist>>

NextAutoSave ==
    \/ \E positions \in SUBSET UnsavedPositions : Request(positions)
    \/ DropHandle
    \/ RecvRequest
    \/ RecvClosed
    \/ Tick

SpecAutoSave == InitAutoSave /\ [][NextAutoSave]_vars

\* The loop's task keeps being polled: a branch of its select! that stays
\* ready is taken.
SpecAutoSaveFair == SpecAutoSave /\ WF_vars(RecvRequest) /\ WF_vars(Tick)

\* C38: every position passed to AutoSave::request is handed to
\* ChunkImages::encoded at a later tick, unless the handle is dropped first.
RequestedIsSaved ==
    \A position \in UnsavedPositions :
        (position \in front.pending)
            ~> (position \notin front.pending \/ ~front.handle)

\* A tick handed over a position that had been requested, the handle held.
SavedAtTick ==
    /\ front.stage = "auto_save"
    /\ front.ticked /\ front.handle
    /\ 1 \in front.handed
    /\ 1 \notin front.pending

(***************************************************************************)
(* Wall sessions (crates/rkgk/src/wall.rs).  front holds the sessions map  *)
(* as the set of its session ids, session_id_counter, and what the last    *)
(* command was, how many sessions there were before it and its result.     *)
(***************************************************************************)
InitWall ==
    /\ chunks = <<>>
    /\ defs = <<>>
    /\ brush = NoBrush
    /\ brush_ok = FALSE
    /\ vm = VmNew(0)
    /\ cur = Idle
    /\ result = NoResult
    /\ image = VmImage(VmNew(0))
    /\ hist = HistInit
    /\ front = [stage |-> "wall", sessions |-> {}, session_id_counter |-> 0,
                op |-> "new", before |-> 0, result |-> "none"]

\* Wall::join: self.sessions.insert(session_id, session); Ok(SessionHandle ..)
\* (session_id_counter stays below MaxJoins, far from where a u32 wraps)
join(sessions, session_id) ==
    [sessions |-> sessions \cup {session_id}, result |-> "Ok"]

Join ==
    /\ front.stage = "wall"
    /\ front.session_id_counter < MaxJoins
    /\ \E joined \in {join(front.sessions, front.session_id_counter)} :
         front' = [front EXCEPT
            !.session_id_counter = @ + 1,
            !.sessions = joined.sessions,
            !.op = "join", !.before = Cardinality(front.sessions),
            !.result = joined.result]
    /\ UNCHANGED <<chunks, vm, cur, result, image, brush, brush_ok, defs, hist>>

\* Drop for SessionHandle: wall.sessions.remove(&self.session_id)
DropSession(session_id) ==
    /\ front.stage = "wall"
    /\ session_id \in front.sessions
    /\ front' = [front EXCEPT
            !.sessions = @ \ {session_id},
            !.op = "drop", !.before = Cardinality(front.sessions),
            !.result = "none"]
    /\ UNCHANGED <<chunks, vm, cur, result, image, brush, brush_ok, defs, hist>>

NextWall ==
    \/ Join
    \/ \E session_id \in 0..(MaxJoins - 1) : DropSession(session_id)

SpecWall == InitWall /\ [][NextWall]_vars

\* C39: the sessions of a wall never exceed settings.max_sessions, and a
\* join at the limit fails with TooManyCurrentSessions and inserts nothing.
SessionsWithinLimit ==
    /\ Cardinality(front.sessions) <= MaxSessions
    /\ (front.op = "join" /\ front.before >= MaxSessions)
            => /\ front.result = "TooManyCurrentSessions"
               /\ Cardinality(front.sessions) = front.before

(***************************************************************************)
(* Broker::open (crates/rkgk/src/wall/broker.rs).  front holds open_walls  *)
(* (0 for a vacant entry, else the Wall of the OpenWall), the entries that *)
(* are held, each locking its shard of the map, how many database threads, *)
(* Walls, ChunkImages and AutoSaves were created per wall id, and for each *)
(* task where it is in open and what its last call returned.  The lock is  *)
(* taken per wall id, the finest a shard can be.                           *)
(***************************************************************************)
Callers == 1..MaxCallers

WallIds == 1..MaxWalls

NoOpen == [wall_id |-> 0, wall |-> 0]

InitBroker ==
    /\ chunks = <<>>
    /\ defs = <<>>
    /\ brush = NoBrush
    /\ brush_ok = FALSE
    /\ vm = VmNew(0)
    /\ cur = Idle
    /\ result = NoResult
    /\ image = VmImage(VmNew(0))
    /\ hist = HistInit
    /\ front = [stage |-> "broker",
                open_walls |-> [wall_id \in WallIds |-> 0],
                locked |-> {},
                db_threads |-> [wall_id \in WallIds |-> 0],
                walls |-> [wall_id \in WallIds |-> 0],
                chunk_images |-> [wall_id \in WallIds |-> 0],
                auto_saves |-> [wall_id \in WallIds |-> 0],
                pc |-> [caller \in Callers |-> "idle"],
                wall_id |-> [caller \in Callers |-> 0],
                opened |-> [caller \in Callers |-> NoOpen]]

\* Fault: an entry that takes no lock on its shard.
entry_unlocked(locked, wall_id) == TRUE

\* self.open_walls.entry(wall_id) returns once no other entry of the shard
\* is held
entry_free(locked, wall_id) == wall_id \notin locked

\* let open_wall = self.open_walls.entry(wall_id); match open_wall
OpenEntry(caller, wall_id) ==
    /\ front.stage = "broker"
    /\ front.pc[caller] = "idle"
    /\ entry_free(front.locked, wall_id)
    /\ front' = [front EXCEPT
            !.locked = @ \cup {wall_id},
            !.pc[caller] = IF front.open_walls[wall_id] = 0
                           THEN "Vacant" ELSE "Occupied",
            !.wall_id[caller] = wall_id]
    /\ UNCHANGED <<chunks, vm, cur, result, image, brush, brush_ok, defs, hist>>

\* dashmap::Entry::Vacant(entry): database::start, Wall::new,
\* ChunkImages::new, AutoSave::new, entry.insert; a failed database::start
\* returns the error, nothing created
OpenVacant(caller, started) ==
    /\ front.stage = "broker"
    /\ front.pc[caller] = "Vacant"
    /\ LET wall_id == front.wall_id[caller]
           wall == front.walls[wall_id] + 1
       IN front' = IF started
                   THEN [front EXCEPT
                        !.db_threads[wall_id] = @ + 1,
                        !.walls[wall_id] = wall,
                        !.chunk_images[wall_id] = @ + 1,
                        !.auto_saves[wall_id] = @ + 1,
                        !.open_walls[wall_id] = wall,
                        !.locked = @ \ {wall_id},
                        !.pc[caller] = "idle",
                        !.opened[caller] = [wall_id |-> wall_id, wall |-> wall]]
                   ELSE [front EXCEPT
                        !.locked = @ \ {wall_id},
                        !.pc[caller] = "idle",
                        !.opened[caller] = NoOpen]
    /\ UNCHANGED <<chunks, vm, cur, result, image, brush, brush_ok, defs, hist>>

\* dashmap::Entry::Occupied(entry) => Ok(entry.get().clone())
OpenOccupied(caller) ==
    /\ front.stage = "broker"
    /\ front.pc[caller] = "Occupied"
    /\ LET wall_id == front.wall_id[caller]
       IN front' = [front EXCEPT
                        !.locked = @ \ {wall_id},
                        !.pc[caller] = "idle",
                        !.opened[caller] = [wall_id |-> wall_id,
                                            wall |-> front.open_walls[wall_id]]]
    /\ UNCHANGED <<chunks, vm, cur, result, image, brush, brush_ok, defs, hist>>

NextBroker ==
    \/ \E caller \in Callers, wall_id \in WallIds : OpenEntry(caller, wall_id)
    \/ \E caller \in Callers, started \in BOOLEAN : OpenVacant(caller, started)
    \/ \E caller \in Callers : OpenOccupied(caller)

SpecBroker == InitBroker /\ [][NextBroker]_vars

\* The wall ids some task has opened.
OpenedIds == {front.opened[caller].wall_id : caller \in Callers} \ {0}

\* C40: however concurrent calls of Broker::open for one wall id interleave,
\* exactly one database thread, Wall, ChunkImages and AutoSave are created
\* for the id, and every caller receives that same Wall.
OpenedOnce ==
    /\ \A wall_id \in WallIds :
        /\ front.db_threads[wall_id] <= 1
        /\ front.walls[wall_id] <= 1
        /\ front.chunk_images[wall_id] <= 1
        /\ front.auto_saves[wall_id] <= 1
    /\ \A wall_id \in OpenedIds :
        /\ front.db_threads[wall_id] = 1
        /\ front.walls[wall_id] = 1
        /\ front.chunk_images[wall_id] = 1
        /\ front.auto_saves[wall_id] = 1
    /\ \A a, b \in Callers :
        (front.opened[a].wall_id # 0
            /\ front.opened[a].wall_id = front.opened[b].wall_id)
        => front.opened[a].wall = front.opened[b].wall

\* Two tasks opened wall 1, one of them through the vacant entry while the
\* other was waiting for the entry.
OpenedTogether ==
    /\ front.stage = "broker"
    /\ front.opened[1] = [wall_id |-> 1, wall |-> 1]
    /\ front.opened[2] = [wall_id |-> 1, wall |-> 1]
    /\ front.pc[3] = "Vacant" /\ front.wall_id[3] = 2

====
